---- MODULE Spec2Model ----
(***************************************************************************)
(* A model of the terminal UI engine of src/tui/tui.py: the terminal       *)
(* lifecycle (enter_raw_mode / restore_terminal with SIGTERM, SIGHUP and   *)
(* atexit), the double-buffered cell grid with flush_diff, regions and     *)
(* scrolling, the input decoder with its event ring, and focus cycling.    *)
(*                                                                         *)
(* The components share no data in the program; each has its own           *)
(* specification below (SpecRestore, SpecTerm, SpecGrid, SpecDecode,       *)
(* SpecRing, SpecRegion, SpecFocus, SpecRender, SpecRow, SpecStyle,        *)
(* SpecEscape, SpecApp, SpecArrow, SpecHome, SpecSplit, SpecStep,          *)
(* SpecFifo, SpecFrame) over the module's variables, the variables of the  *)
(* other components staying at their idle values.  SpecLoop puts the       *)
(* components together as main's loop does.                                *)
(***************************************************************************)
EXTENDS Integers, Sequences, FiniteSets, TLC

VARIABLES
    \* ---- terminal lifecycle ------------------------------------------
    original_termios,   \* terminal['original_termios']: "None" or saved attributes
    tty_attrs,          \* the attributes the OS terminal is in
    initial_attrs,      \* the attributes in force when the process started
    cursor_visible,     \* the terminal shows its cursor
    alt_screen,         \* the terminal is on the alternate screen buffer
    syscalls,           \* the restoration syscalls performed so far, in order
    stack,              \* the Python frames of the one thread, innermost last
    proc,               \* "running", "finalizing" (atexit hooks) or "exited"
    signals_sent,       \* SIGTERM/SIGHUP delivered so far
    calls,              \* restore_terminal calls made in a row by a caller
    entered,            \* enter_raw_mode has run to completion
    \* ---- cell grid ---------------------------------------------------
    grid_width, grid_height,
    current,            \* grid['current']: what the next frame should show
    previous,           \* grid['previous']: what the terminal displays
    output,             \* the bytes of the last os.write(1, ...) of a flush
    style_cache,        \* app_state['style_cache']: (fg, bg, mods) -> bytes
    \* ---- input decoder and event ring --------------------------------
    event_ring,         \* app_state['event_ring'], index 0 .. capacity - 1
    ring_write_index,
    ring_read_index,
    raw_bytes,          \* the bytes of the read being decoded
    unread,             \* events written and not yet returned, oldest first
    returned,           \* what the last read_event_from_ring returned
    \* ---- regions and application state --------------------------------
    regions,            \* app_state['regions']: region id -> region
    region_order,       \* app_state['region_order']
    focused_region_id,
    mode,
    input_buffer,       \* app_state['input_buffer']
    command_buffer,     \* app_state['command_buffer']
    last_event_kind,    \* app_state['last_event_kind']
    last_event_mods,    \* app_state['last_event_mods']
    last_event_char,    \* app_state['last_event_char']
    last                \* the operation that ran last, with its arguments

termVars == <<original_termios, tty_attrs, initial_attrs, cursor_visible,
              alt_screen, syscalls, stack, proc, signals_sent, calls, entered>>
gridVars == <<grid_width, grid_height, current, previous, output, style_cache>>
inputVars == <<event_ring, ring_write_index, ring_read_index, raw_bytes,
               unread, returned>>
appVars == <<regions, region_order, focused_region_id, mode, input_buffer,
             command_buffer,
             last_event_kind, last_event_mods, last_event_char>>
vars == <<termVars, gridVars, inputVars, appVars, last>>

None == "None"

(***************************************************************************)
(* CONSTANTS AND TYPE ALIASES (tui.py 1-43)                                *)
(***************************************************************************)
COLOR_DEFAULT == 0
COLOR_TAG_IDX == 16777216
COLOR_TAG_RGB == 33554432

MOD_BOLD == 1
MOD_DIM == 2
MOD_ITALIC == 4
MOD_UNDERLINE == 8
MOD_STRIKETHROUGH == 16
MOD_REVERSE == 32
MOD_HIDDEN == 64
MOD_BLINK == 128

MOD_KEY_SHIFT == 1
MOD_KEY_CTRL == 2
MOD_KEY_ALT == 4
MOD_KEY_SUPER == 8

MODE_NORMAL == "NORMAL"
MODE_INPUT == "INPUT"
MODE_COMMAND == "COMMAND"
MODE_CONFIRM == "CONFIRM"
MODE_QUITTING == "QUITTING"

NO_REGION == -1

\* 64 in the program; scaled down so that a full lap of the ring is explored.
RING_BUFFER_CAPACITY == 4

BLANK_CELL == <<" ", COLOR_DEFAULT, COLOR_DEFAULT, 0>>

(***************************************************************************)
(* Bounds of the model.                                                    *)
(***************************************************************************)
MaxSignals == 2      \* signals delivered in one run of the process
MaxCalls == 2        \* restore_terminal calls in a row (SpecRestore)

(***************************************************************************)
(* Idle values: what a component's variables hold in the specifications    *)
(* of the other components.                                                *)
(***************************************************************************)
IdleTerm ==
    /\ original_termios = None
    /\ tty_attrs = "cooked"
    /\ initial_attrs = "cooked"
    /\ cursor_visible = TRUE
    /\ alt_screen = FALSE
    /\ syscalls = <<>>
    /\ stack = <<>>
    /\ proc = "exited"
    /\ signals_sent = 0
    /\ calls = 0
    /\ entered = FALSE

IdleGrid ==
    /\ grid_width = 0
    /\ grid_height = 0
    /\ current = <<>>
    /\ previous = <<>>
    /\ output = <<>>
    /\ style_cache = <<>>

IdleInput ==
    /\ event_ring = [i \in 0..(RING_BUFFER_CAPACITY - 1) |-> [kind |-> "None"]]
    /\ ring_write_index = 0
    /\ ring_read_index = 0
    /\ raw_bytes = <<>>
    /\ unread = <<>>
    /\ returned = [kind |-> "None"]

IdleApp ==
    /\ regions = <<>>
    /\ region_order = <<>>
    /\ focused_region_id = NO_REGION
    /\ mode = MODE_NORMAL
    /\ input_buffer = <<>>
    /\ command_buffer = <<>>
    /\ last_event_kind = "none"
    /\ last_event_mods = 0
    /\ last_event_char = ""

(***************************************************************************)
(* TERMINAL SETUP / TEARDOWN (tui.py 93-136, 825-837, 1011-1012)           *)
(*                                                                         *)
(* The process is one thread.  A signal handler runs in that thread, on    *)
(* top of whatever frame was executing, between two statements; sys.exit   *)
(* in the handler raises SystemExit, which unwinds every frame below it    *)
(* (main has no try/except) and starts interpreter finalization, where    *)
(* the atexit hook runs restore_terminal once more.                        *)
(***************************************************************************)
Attrs == {"cooked", "cbreak", "raw"}

Frame(fn, pc) == [fn |-> fn, pc |-> pc, saved_termios |-> None]

Top == stack[Len(stack)]

SetTop(f) == [stack EXCEPT ![Len(stack)] = f]

\* Where control goes when restore_terminal returns in a frame of function fn.
AfterRestore(fn) ==
    CASE fn = "main" -> "print"
      [] fn = "handler" -> "sys_exit"
      [] fn = "atexit" -> "hook_done"
      [] OTHER -> "returned"

RestorePcs == {"r_read", "r_tcsetattr", "r_clear", "r_show", "r_leave"}

\* A mutant of enter_raw_mode: tcgetattr runs after tty.setraw, so the
\* attributes saved are the raw ones.
EnterStepSavesAfterRaw ==
    /\ proc = "running"
    /\ stack # <<>>
    /\ Top.fn = "main"
    /\ \/ /\ Top.pc = "enter_tcgetattr"
          /\ stack' = SetTop([Top EXCEPT !.pc = "enter_store",
                                         !.saved_termios = "raw"])
          /\ UNCHANGED <<original_termios, tty_attrs, cursor_visible,
                         alt_screen, entered>>
       \/ /\ Top.pc = "enter_store"
          /\ original_termios' = Top.saved_termios
          /\ stack' = SetTop([Top EXCEPT !.pc = "enter_size"])
          /\ UNCHANGED <<tty_attrs, cursor_visible, alt_screen, entered>>
       \/ /\ Top.pc = "enter_alt"
          /\ alt_screen' = TRUE
          /\ stack' = SetTop([Top EXCEPT !.pc = "enter_hide"])
          /\ UNCHANGED <<original_termios, tty_attrs, cursor_visible, entered>>
       \/ /\ Top.pc = "enter_hide"
          /\ cursor_visible' = FALSE
          /\ stack' = SetTop([Top EXCEPT !.pc = "enter_setraw"])
          /\ UNCHANGED <<original_termios, tty_attrs, alt_screen, entered>>
       \/ /\ Top.pc = "enter_setraw"
          /\ tty_attrs' = "raw"
          /\ entered' = TRUE
          /\ stack' = SetTop([Top EXCEPT !.pc = "loop", !.saved_termios = None])
          /\ UNCHANGED <<original_termios, cursor_visible, alt_screen>>
    /\ last' = [op |-> "enter_raw_mode"]
    /\ UNCHANGED <<initial_attrs, syscalls, proc, signals_sent, calls>>
    /\ UNCHANGED <<gridVars, inputVars, appVars>>

\* enter_raw_mode, one statement at a time, in the main frame.
EnterStep ==
    /\ proc = "running"
    /\ stack # <<>>
    /\ Top.fn = "main"
    /\ \/ /\ Top.pc = "enter_tcgetattr"
          /\ stack' = SetTop([Top EXCEPT !.pc = "enter_store",
                                         !.saved_termios = tty_attrs])
          /\ UNCHANGED <<original_termios, tty_attrs, cursor_visible,
                         alt_screen, entered>>
       \/ /\ Top.pc = "enter_store"
          /\ original_termios' = Top.saved_termios
          /\ stack' = SetTop([Top EXCEPT !.pc = "enter_size"])
          /\ UNCHANGED <<tty_attrs, cursor_visible, alt_screen, entered>>
       \/ /\ Top.pc = "enter_alt"
          /\ alt_screen' = TRUE
          /\ stack' = SetTop([Top EXCEPT !.pc = "enter_hide"])
          /\ UNCHANGED <<original_termios, tty_attrs, cursor_visible, entered>>
       \/ /\ Top.pc = "enter_hide"
          /\ cursor_visible' = FALSE
          /\ stack' = SetTop([Top EXCEPT !.pc = "enter_setraw"])
          /\ UNCHANGED <<original_termios, tty_attrs, alt_screen, entered>>
       \/ /\ Top.pc = "enter_setraw"
          /\ tty_attrs' = "raw"
          /\ entered' = TRUE
          /\ stack' = SetTop([Top EXCEPT !.pc = "loop", !.saved_termios = None])
          /\ UNCHANGED <<original_termios, cursor_visible, alt_screen>>
    /\ last' = [op |-> "enter_raw_mode"]
    /\ UNCHANGED <<initial_attrs, syscalls, proc, signals_sent, calls>>
    /\ UNCHANGED <<gridVars, inputVars, appVars>>

\* enter_raw_mode lines 105-107: os.get_terminal_size() answers, and the
\* size goes to terminal['width'] and terminal['height'] (which no step of
\* the lifecycle reads), or raises OSError (standard output is no terminal).
\* Neither enter_raw_mode nor main catches it: main ends with the traceback
\* and finalization starts.
GetTerminalSize ==
    /\ proc = "running"
    /\ stack # <<>>
    /\ Top.fn = "main"
    /\ Top.pc = "enter_size"
    /\ \/ /\ stack' = SetTop([Top EXCEPT !.pc = "enter_alt"])
          /\ proc' = proc
          /\ last' = [op |-> "get_terminal_size", failed |-> FALSE]
       \/ /\ stack' = <<Frame("atexit", "r_read")>>
          /\ proc' = "finalizing"
          /\ last' = [op |-> "get_terminal_size", failed |-> TRUE]
    /\ UNCHANGED <<original_termios, tty_attrs, initial_attrs, cursor_visible,
                   alt_screen, syscalls, signals_sent, calls, entered>>
    /\ UNCHANGED <<gridVars, inputVars, appVars>>

\* One iteration of the main loop that does not see the quit key.
LoopIteration ==
    /\ proc = "running"
    /\ stack # <<>>
    /\ Top.fn = "main"
    /\ Top.pc = "loop"
    /\ last' = [op |-> "loop"]
    /\ UNCHANGED <<original_termios, tty_attrs, initial_attrs, cursor_visible,
                   alt_screen, syscalls, stack, proc, signals_sent, calls,
                   entered>>
    /\ UNCHANGED <<gridVars, inputVars, appVars>>

\* The iteration that ends in MODE_QUITTING: break, then restore_terminal.
LoopQuit ==
    /\ proc = "running"
    /\ stack # <<>>
    /\ Top.fn = "main"
    /\ Top.pc = "loop"
    /\ stack' = SetTop([Top EXCEPT !.pc = "r_read"])
    /\ last' = [op |-> "quit"]
    /\ UNCHANGED <<original_termios, tty_attrs, initial_attrs, cursor_visible,
                   alt_screen, syscalls, proc, signals_sent, calls, entered>>
    /\ UNCHANGED <<gridVars, inputVars, appVars>>

\* A mutant of restore_terminal that never disarms: line 132 is missing.
RestoreClearMissing(f) ==
    /\ original_termios' = original_termios
    /\ stack' = SetTop([f EXCEPT !.pc = "r_show"])

\* restore_terminal line 132: terminal['original_termios'] = None
RestoreClear(f) ==
    /\ original_termios' = None
    /\ stack' = SetTop([f EXCEPT !.pc = "r_show"])

\* restore_terminal, one statement at a time, in the innermost frame.
RestoreStep ==
    /\ proc \in {"running", "finalizing"}
    /\ stack # <<>>
    /\ Top.pc \in RestorePcs
    /\ \/ /\ Top.pc = "r_read"
          /\ IF original_termios = None
             THEN stack' = SetTop([Top EXCEPT !.pc = AfterRestore(Top.fn)])
             ELSE stack' = SetTop([Top EXCEPT !.pc = "r_tcsetattr",
                                              !.saved_termios = original_termios])
          /\ UNCHANGED <<original_termios, tty_attrs, cursor_visible,
                         alt_screen, syscalls>>
       \/ /\ Top.pc = "r_tcsetattr"
          /\ tty_attrs' = Top.saved_termios
          /\ syscalls' = Append(syscalls, "tcsetattr")
          /\ stack' = SetTop([Top EXCEPT !.pc = "r_clear"])
          /\ UNCHANGED <<original_termios, cursor_visible, alt_screen>>
       \/ /\ Top.pc = "r_clear"
          /\ RestoreClear(Top)
          /\ UNCHANGED <<tty_attrs, cursor_visible, alt_screen, syscalls>>
       \/ /\ Top.pc = "r_show"
          /\ cursor_visible' = TRUE
          /\ syscalls' = Append(syscalls, "show_cursor")
          /\ stack' = SetTop([Top EXCEPT !.pc = "r_leave"])
          /\ UNCHANGED <<original_termios, tty_attrs, alt_screen>>
       \/ /\ Top.pc = "r_leave"
          /\ alt_screen' = FALSE
          /\ syscalls' = Append(syscalls, "leave_alt")
          /\ stack' = SetTop([Top EXCEPT !.pc = AfterRestore(Top.fn),
                                         !.saved_termios = None])
          /\ UNCHANGED <<original_termios, tty_attrs, cursor_visible>>
    /\ last' = [op |-> "restore_terminal", fn |-> Top.fn, pc |-> Top.pc]
    /\ UNCHANGED <<initial_attrs, proc, signals_sent, calls, entered>>
    /\ UNCHANGED <<gridVars, inputVars, appVars>>

\* main line 1012 and the return of main: the interpreter starts finalizing
\* and calls the atexit hook, restore_terminal(terminal).
MainReturn ==
    /\ proc = "running"
    /\ stack # <<>>
    /\ Top.fn = "main"
    /\ Top.pc = "print"
    /\ proc' = "finalizing"
    /\ stack' = <<Frame("atexit", "r_read")>>
    /\ last' = [op |-> "return"]
    /\ UNCHANGED <<original_termios, tty_attrs, initial_attrs, cursor_visible,
                   alt_screen, syscalls, signals_sent, calls, entered>>
    /\ UNCHANGED <<gridVars, inputVars, appVars>>

\* SIGTERM or SIGHUP arrives: _restore_on_signal starts on top of the
\* interrupted frame (main, the atexit hook, or an earlier handler).
DeliverSignal ==
    /\ proc \in {"running", "finalizing"}
    /\ stack # <<>>
    /\ signals_sent < MaxSignals
    /\ signals_sent' = signals_sent + 1
    /\ stack' = Append(stack, Frame("handler", "r_read"))
    /\ last' = [op |-> "signal"]
    /\ UNCHANGED <<original_termios, tty_attrs, initial_attrs, cursor_visible,
                   alt_screen, syscalls, proc, calls, entered>>
    /\ UNCHANGED <<gridVars, inputVars, appVars>>

\* _restore_on_signal line 834: sys.exit(0).  SystemExit unwinds the whole
\* stack.  Raised while main runs it ends main and finalization starts;
\* raised inside the atexit hook it ends the hook and the process exits.
HandlerExit ==
    /\ proc \in {"running", "finalizing"}
    /\ stack # <<>>
    /\ Top.fn = "handler"
    /\ Top.pc = "sys_exit"
    /\ IF proc = "running"
       THEN /\ proc' = "finalizing"
            /\ stack' = <<Frame("atexit", "r_read")>>
       ELSE /\ proc' = "exited"
            /\ stack' = <<>>
    /\ last' = [op |-> "sys_exit"]
    /\ UNCHANGED <<original_termios, tty_attrs, initial_attrs, cursor_visible,
                   alt_screen, syscalls, signals_sent, calls, entered>>
    /\ UNCHANGED <<gridVars, inputVars, appVars>>

\* The atexit hook has returned: the process is gone.
AtexitDone ==
    /\ proc = "finalizing"
    /\ stack # <<>>
    /\ Top.fn = "atexit"
    /\ Top.pc = "hook_done"
    /\ proc' = "exited"
    /\ stack' = <<>>
    /\ last' = [op |-> "exit"]
    /\ UNCHANGED <<original_termios, tty_attrs, initial_attrs, cursor_visible,
                   alt_screen, syscalls, signals_sent, calls, entered>>
    /\ UNCHANGED <<gridVars, inputVars, appVars>>

\* main after lines 826-836: the terminal dict is fresh, the atexit hook and
\* both signal handlers are registered, enter_raw_mode is about to run.
InitTerm ==
    /\ original_termios = None
    /\ tty_attrs \in Attrs
    /\ initial_attrs = tty_attrs
    /\ cursor_visible = TRUE
    /\ alt_screen = FALSE
    /\ syscalls = <<>>
    /\ stack = <<Frame("main", "enter_tcgetattr")>>
    /\ proc = "running"
    /\ signals_sent = 0
    /\ calls = 0
    /\ entered = FALSE
    /\ IdleGrid /\ IdleInput /\ IdleApp
    /\ last = [op |-> "init"]

NextTerm ==
    \/ EnterStep
    \/ GetTerminalSize
    \/ LoopIteration
    \/ LoopQuit
    \/ RestoreStep
    \/ MainReturn
    \/ DeliverSignal
    \/ HandlerExit
    \/ AtexitDone

SpecTerm == InitTerm /\ [][NextTerm]_vars

(***************************************************************************)
(* restore_terminal called in a row by one caller, no signal in between,   *)
(* from any terminal state (SpecRestore).                                  *)
(***************************************************************************)
CallRestore ==
    /\ proc = "running"
    /\ stack # <<>>
    /\ Top.fn = "caller"
    /\ Top.pc = "returned"
    /\ calls < MaxCalls
    /\ calls' = calls + 1
    /\ stack' = SetTop([Top EXCEPT !.pc = "r_read"])
    /\ last' = [op |-> "call"]
    /\ UNCHANGED <<original_termios, tty_attrs, initial_attrs, cursor_visible,
                   alt_screen, syscalls, proc, signals_sent, entered>>
    /\ UNCHANGED <<gridVars, inputVars, appVars>>

InitRestore ==
    /\ original_termios \in Attrs \cup {None}
    /\ tty_attrs \in Attrs
    /\ initial_attrs = tty_attrs
    /\ cursor_visible \in BOOLEAN
    /\ alt_screen \in BOOLEAN
    /\ syscalls = <<>>
    /\ stack = <<Frame("caller", "returned")>>
    /\ proc = "running"
    /\ signals_sent = 0
    /\ calls = 0
    /\ entered = FALSE
    /\ IdleGrid /\ IdleInput /\ IdleApp
    /\ last = [op |-> "init"]

NextRestore ==
    \/ CallRestore
    \/ RestoreStep

SpecRestore == InitRestore /\ [][NextRestore]_vars

(***************************************************************************)
(* Claims about the terminal lifecycle.                                    *)
(***************************************************************************)
RestoreActions == {"tcsetattr", "show_cursor", "leave_alt"}

Count(seq, x) == Cardinality({i \in 1..Len(seq) : seq[i] = x})

EachAtMostOnce == \A a \in RestoreActions : Count(syscalls, a) <= 1

\* C1: restore_terminal is idempotent.  From any terminal state, calls made
\* in a row perform each restoration action (tcsetattr with the saved
\* attributes, show cursor, leave alternate screen) at most once in total,
\* and no statement of the second (or a later) call performs a syscall or
\* changes the terminal state.
C1_RestoreIdempotent ==
    /\ []EachAtMostOnce
    /\ [][(calls >= 2 /\ RestoreStep) =>
            UNCHANGED <<original_termios, tty_attrs, cursor_visible,
                        alt_screen, syscalls>>]_vars

\* C1 witness: the first call restored a terminal with saved attributes and
\* the second call has returned.
C1_Witness ==
    /\ calls = 2
    /\ stack # <<>>
    /\ Top.fn = "caller"
    /\ Top.pc = "returned"
    /\ syscalls = <<"tcsetattr", "show_cursor", "leave_alt">>
    /\ original_termios = None

\* C2: with SIGTERM/SIGHUP deliverable between any two statements, each
\* restoration action is performed at most once over the process lifetime
\* (explicit call, signal handler and atexit hook together).
C2_AtMostOnceUnderSignals == EachAtMostOnce

\* C3: once enter_raw_mode has completed, every terminated run has the saved
\* attributes re-applied, the cursor shown, the alternate screen left and
\* original_termios cleared.
C3_RestoredAtExit ==
    (proc = "exited" /\ entered) =>
        /\ tty_attrs = initial_attrs
        /\ cursor_visible
        /\ ~alt_screen
        /\ original_termios = None

\* C38: enter_raw_mode followed by restore_terminal, each run to its end, is
\* a round trip on the terminal state: the terminal attributes equal the
\* ones in force before enter_raw_mode, the cursor is visible and the main
\* (non-alternate) screen is active; and the attributes are saved before
\* any change to them is made.
C38_EnterRestoreRoundTrip ==
    /\ []((proc = "exited" /\ signals_sent = 0) =>
             (/\ tty_attrs = initial_attrs
              /\ cursor_visible
              /\ ~alt_screen))
    /\ [][(/\ last'.op = "enter_raw_mode"
           /\ stack # <<>>
           /\ Top.pc = "enter_setraw") =>
              (/\ original_termios = initial_attrs
               /\ tty_attrs = initial_attrs)]_vars
    /\ [][(last'.op = "enter_raw_mode" /\ tty_attrs' # tty_attrs) =>
              (stack # <<>> /\ Top.pc = "enter_setraw")]_vars

\* C38 witness: started on a cooked terminal, the process has entered raw
\* mode, restored the terminal once and exited with no signal delivered.
C38_Witness ==
    /\ proc = "exited"
    /\ entered
    /\ signals_sent = 0
    /\ initial_attrs = "cooked"
    /\ tty_attrs = "cooked"
    /\ syscalls = <<"tcsetattr", "show_cursor", "leave_alt">>
    /\ cursor_visible
    /\ ~alt_screen

\* C20: when the terminal-size query fails during enter_raw_mode the engine
\* degrades gracefully: enter_raw_mode does not abort with an error, and
\* start-up continues (with a fallback size) at the next statement.
C20_SizeFailureDegrades ==
    (last.op = "get_terminal_size" /\ last.failed) =>
        /\ proc = "running"
        /\ stack # <<>>
        /\ Top.fn = "main"
        /\ Top.pc = "enter_alt"

(***************************************************************************)
(* Bytes.  A bytes object is a sequence of integers 0..255, a str a        *)
(* sequence of one-character strings; chr, ord and str.encode go through   *)
(* the ASCII table (the grave accent 0x60, which a TLA+ string cannot     *)
(* hold, is written "GRAVE").                                              *)
(***************************************************************************)
Printable == <<
    " ", "!", "\"", "#", "$", "%", "&", "'", "(", ")", "*", "+", ",", "-",
    ".", "/", "0", "1", "2", "3", "4", "5", "6", "7", "8", "9", ":", ";",
    "<", "=", ">", "?", "@", "A", "B", "C", "D", "E", "F", "G", "H", "I",
    "J", "K", "L", "M", "N", "O", "P", "Q", "R", "S", "T", "U", "V", "W",
    "X", "Y", "Z", "[", "\\", "]", "^", "_", "GRAVE", "a", "b", "c", "d", "e",
    "f", "g", "h", "i", "j", "k", "l", "m", "n", "o", "p", "q", "r", "s",
    "t", "u", "v", "w", "x", "y", "z", "{", "|", "}", "~"
>>

\* chr(n) for printable ASCII
Chr(n) == Printable[n - 31]

\* ord(c) for printable ASCII, tabulated
OrdTable ==
    [c \in {Printable[i] : i \in 1..Len(Printable)} |->
        CHOOSE n \in 32..126 : Printable[n - 31] = c]

Ord(c) == OrdTable[c]

\* text.encode('ascii') of a printable str
Encode(text) == [i \in 1..Len(text) |-> Ord(text[i])]

RECURSIVE Digits(_)
\* str(n) for n >= 0, as in an f-string
Digits(n) ==
    IF n < 10 THEN <<Chr(48 + n)>>
    ELSE Digits(n \div 10) \o <<Chr(48 + (n % 10))>>

ESC == 27

\* bit test: value & mask, for mask a power of two (Python's & on integers,
\* two's complement for a negative value)
HasBit(value, mask) == (value \div mask) % 2 = 1

(***************************************************************************)
(* HOT PATH: 2D CELL GRID (tui.py 146-345)                                 *)
(***************************************************************************)
SGR_RESET == <<ESC>> \o Encode(<<"[", "0", "m">>)

\* color & 0xFF_000000
ColorTag(color) == ((color \div 16777216) % 256) * 16777216

\* color & 0x00_FFFFFF
ColorValue(color) == color % 16777216

\* A mutant of the color builders: a tag that is none of the three known
\* ones is read as an indexed color.
BuildColorEscapeUnknownAsIndexed(base, color) ==
    LET tag == ColorTag(color)
        value == ColorValue(color)
    IN  IF tag = COLOR_DEFAULT
        THEN <<ESC>> \o Encode(<<"[", base, "9", "m">>)
        ELSE IF tag = COLOR_TAG_RGB
        THEN <<ESC>> \o Encode(<<"[", base, "8", ";", "2", ";">>
                               \o Digits((value \div 65536) % 256) \o <<";">>
                               \o Digits((value \div 256) % 256) \o <<";">>
                               \o Digits(value % 256) \o <<"m">>)
        ELSE <<ESC>> \o Encode(<<"[", base, "8", ";", "5", ";">>
                               \o Digits(value % 256) \o <<"m">>)

\* build_color_escape_fg / _bg: base is "3" for the foreground, "4" for the
\* background.
BuildColorEscape(base, color) ==
    LET tag == ColorTag(color)
        value == ColorValue(color)
        default == <<ESC>> \o Encode(<<"[", base, "9", "m">>)
    IN  IF tag = COLOR_DEFAULT THEN default
        ELSE IF tag = COLOR_TAG_IDX
        THEN <<ESC>> \o Encode(<<"[", base, "8", ";", "5", ";">>
                               \o Digits(value % 256) \o <<"m">>)
        ELSE IF tag = COLOR_TAG_RGB
        THEN <<ESC>> \o Encode(<<"[", base, "8", ";", "2", ";">>
                               \o Digits((value \div 65536) % 256) \o <<";">>
                               \o Digits((value \div 256) % 256) \o <<";">>
                               \o Digits(value % 256) \o <<"m">>)
        ELSE default

build_color_escape_fg(color) == BuildColorEscape("3", color)

build_color_escape_bg(color) == BuildColorEscape("4", color)

SgrIf(modifiers, mask, digit) ==
    IF HasBit(modifiers, mask) THEN <<ESC>> \o Encode(<<"[", digit, "m">>)
    ELSE <<>>

\* A mutant of the modifier builder: the escapes follow the order of the
\* bits, strikethrough (bit 4) before reverse, hidden and blink.
BuildModifierEscapeInBitOrder(modifiers) ==
    SGR_RESET
        \o SgrIf(modifiers, MOD_BOLD, "1")
        \o SgrIf(modifiers, MOD_DIM, "2")
        \o SgrIf(modifiers, MOD_ITALIC, "3")
        \o SgrIf(modifiers, MOD_UNDERLINE, "4")
        \o SgrIf(modifiers, MOD_STRIKETHROUGH, "9")
        \o SgrIf(modifiers, MOD_REVERSE, "7")
        \o SgrIf(modifiers, MOD_HIDDEN, "8")
        \o SgrIf(modifiers, MOD_BLINK, "5")

build_modifier_escape(modifiers) ==
    SGR_RESET
        \o SgrIf(modifiers, MOD_BOLD, "1")
        \o SgrIf(modifiers, MOD_DIM, "2")
        \o SgrIf(modifiers, MOD_ITALIC, "3")
        \o SgrIf(modifiers, MOD_UNDERLINE, "4")
        \o SgrIf(modifiers, MOD_BLINK, "5")
        \o SgrIf(modifiers, MOD_REVERSE, "7")
        \o SgrIf(modifiers, MOD_HIDDEN, "8")
        \o SgrIf(modifiers, MOD_STRIKETHROUGH, "9")

build_style_cache == <<>>

\* A mutant of the cache key: the modifiers are left out of it.
CacheKeyWithoutModifiers(fg_color, bg_color, modifiers) ==
    <<fg_color, bg_color, 0>>

\* line 214: cache_key = (fg_color, bg_color, modifiers)
CacheKey(fg_color, bg_color, modifiers) == <<fg_color, bg_color, modifiers>>

\* A mutant of the store: the built bytes are returned and not kept.
CacheStoreSkipped(cache, cache_key, result) == cache

\* line 222: style_cache[cache_key] = result
CacheStore(cache, cache_key, result) == cache @@ (cache_key :> result)

\* get_style_bytes: the bytes returned and the cache afterwards.
get_style_bytes(fg_color, bg_color, modifiers, cache) ==
    LET cache_key == CacheKey(fg_color, bg_color, modifiers)
        result == build_modifier_escape(modifiers)
                      \o build_color_escape_fg(fg_color)
                      \o build_color_escape_bg(bg_color)
    IN  IF cache_key \in DOMAIN cache
        THEN [bytes |-> cache[cache_key], cache |-> cache]
        ELSE [bytes |-> result, cache |-> CacheStore(cache, cache_key, result)]

\* A mutant of the position escape: the column is written first.
CursorPositionColumnFirst(row, column) ==
    <<ESC>> \o Encode(<<"[">> \o Digits(column) \o <<";">> \o Digits(row)
                      \o <<"H">>)

\* f'\033[{row};{column}H'.encode('ascii')
CursorPosition(row, column) ==
    <<ESC>> \o Encode(<<"[">> \o Digits(row) \o <<";">> \o Digits(column)
                      \o <<"H">>)

\* A mutant of the cell comparison: only the symbols are compared.
CellsDifferBySymbol(current_cell, previous_cell) ==
    current_cell[1] # previous_cell[1]

\* line 278: current_cells[index] != previous_cells[index], on tuples
CellsDiffer(current_cell, previous_cell) == current_cell # previous_cell

RECURSIVE RowScan(_, _, _, _)
\* lines 277-280: the loop from `index`, returning at the first difference.
RowScan(current_cells, previous_cells, index, row_end) ==
    IF index >= row_end THEN FALSE
    ELSE IF CellsDiffer(current_cells[index + 1], previous_cells[index + 1])
    THEN TRUE
    ELSE RowScan(current_cells, previous_cells, index + 1, row_end)

\* row_has_changed; the lists are 0-based in the program, 1-based here.
row_has_changed(current_cells, previous_cells, row_start, row_end) ==
    RowScan(current_cells, previous_cells, row_start, row_end)

\* A mutant of the start of a flush: the register starts at the default
\* style instead of the sentinel.
FlushStartDefaultRegister(cache) ==
    [out |-> <<>>, register |-> <<COLOR_DEFAULT, COLOR_DEFAULT, 0>>,
     cursor_at_column |-> -1, cache |-> cache]

\* The state of one flush call: the BytesIO, the style delta register, the
\* cursor column of the row being written, and the style cache.
FlushStart(cache) ==
    [out |-> <<>>, register |-> <<-1, -1, -1>>, cursor_at_column |-> -1,
     cache |-> cache]

\* flush_diff lines 317-338: a changed cell is written.
EmitCell(cell, row, column, st) ==
    LET position == IF st.cursor_at_column # column
                    THEN CursorPosition(row + 1, column + 1)
                    ELSE <<>>
        style == <<cell[2], cell[3], cell[4]>>
        style_changed == style # st.register
        got == get_style_bytes(cell[2], cell[3], cell[4], st.cache)
    IN  [out |-> st.out \o position
                    \o (IF style_changed THEN got.bytes ELSE <<>>)
                    \o Encode(<<cell[1]>>),
         register |-> IF style_changed THEN style ELSE st.register,
         cursor_at_column |-> column + 1,
         cache |-> IF style_changed THEN got.cache ELSE st.cache]

RECURSIVE DiffColumnsCursorKept(_, _, _, _, _, _)
\* A mutant of the column loop: an unchanged cell advances cursor_at_column
\* as if it had been written.
DiffColumnsCursorKept(current_cells, previous_cells, width, row, column, st) ==
    IF column >= width THEN st
    ELSE LET cell_index == row * width + column
             current_cell == current_cells[cell_index + 1]
             previous_cell == previous_cells[cell_index + 1]
         IN  IF current_cell = previous_cell
             THEN DiffColumnsCursorKept(current_cells, previous_cells, width,
                                        row, column + 1,
                                        [st EXCEPT !.cursor_at_column =
                                            IF @ = -1 THEN -1 ELSE @ + 1])
             ELSE DiffColumnsCursorKept(current_cells, previous_cells, width,
                                        row, column + 1,
                                        EmitCell(current_cell, row, column, st))

RECURSIVE DiffColumns(_, _, _, _, _, _)
\* flush_diff lines 308-338: the columns of one changed row, from `column`.
DiffColumns(current_cells, previous_cells, width, row, column, st) ==
    IF column >= width THEN st
    ELSE LET cell_index == row * width + column
             current_cell == current_cells[cell_index + 1]
             previous_cell == previous_cells[cell_index + 1]
         IN  IF current_cell = previous_cell
             THEN DiffColumns(current_cells, previous_cells, width, row,
                              column + 1, [st EXCEPT !.cursor_at_column = -1])
             ELSE DiffColumns(current_cells, previous_cells, width, row,
                              column + 1, EmitCell(current_cell, row, column, st))

RECURSIVE DiffRows(_, _, _, _, _, _)
\* flush_diff lines 298-338: the rows from `row`.
DiffRows(current_cells, previous_cells, width, height, row, st) ==
    IF row >= height THEN st
    ELSE IF ~row_has_changed(current_cells, previous_cells,
                             row * width, row * width + width)
    THEN DiffRows(current_cells, previous_cells, width, height, row + 1, st)
    ELSE DiffRows(current_cells, previous_cells, width, height, row + 1,
                  DiffColumns(current_cells, previous_cells, width, row, 0,
                              [st EXCEPT !.cursor_at_column = -1]))

\* A mutant of the end of frame: the trailing SGR reset is forgotten.
EndOfFrameNoReset(out) == out

\* flush_diff lines 340-341: reset SGR at end of frame.
EndOfFrame(out) == out \o SGR_RESET

\* A mutant of the swap: previous_cells = current_cells[:] rebinds the local
\* name and leaves the caller's list as it was.
SwapRebindsLocal(current_cells, previous_cells) == previous_cells

\* flush_diff line 345: previous_cells[:] = current_cells[:]
Swap(current_cells, previous_cells) ==
    [i \in 1..Len(current_cells) |-> current_cells[i]]

\* flush_diff(grid['current'], grid['previous'], width, height, style_cache)
FlushDiff ==
    /\ grid_width > 0
    /\ LET st == DiffRows(current, previous, grid_width, grid_height, 0,
                          FlushStart(style_cache))
       IN  /\ output' = EndOfFrame(st.out)
           /\ style_cache' = st.cache
    /\ previous' = Swap(current, previous)
    /\ last' = [op |-> "flush_diff", current |-> current, previous |-> previous]
    /\ UNCHANGED <<grid_width, grid_height, current>>
    /\ UNCHANGED <<termVars, inputVars, appVars>>

\* The cells of test_diff (lines 355-359) and the blank cell.
color_a == COLOR_TAG_IDX + 196
color_b == COLOR_TAG_IDX + 12
cell_a == <<"A", color_a, COLOR_DEFAULT, MOD_BOLD>>
cell_b == <<"B", color_b, COLOR_DEFAULT, 0>>
Cells == {BLANK_CELL, cell_a, cell_b}

MaxCells == 4        \* cells of a grid: every width x height up to this many

GridShapes ==
    {wh \in (1..MaxCells) \X (1..MaxCells) : wh[1] * wh[2] <= MaxCells}

\* Any grid of a bounded size, with any contents in both buffers.
InitGrid ==
    /\ \E wh \in GridShapes :
          /\ grid_width = wh[1]
          /\ grid_height = wh[2]
    /\ current \in [1..(grid_width * grid_height) -> Cells]
    /\ previous \in [1..(grid_width * grid_height) -> Cells]
    /\ output = <<>>
    /\ style_cache = build_style_cache
    /\ IdleTerm /\ IdleInput /\ IdleApp
    /\ last = [op |-> "init"]

NextGrid == FlushDiff

SpecGrid == InitGrid /\ [][NextGrid]_vars

(***************************************************************************)
(* Claims about flush_diff.                                                *)
(***************************************************************************)
\* C4: after any flush_diff call, previous equals current cell for cell,
\* whatever the two buffers held before the call, and current is not
\* modified by the call.
C4_PreviousEqualsCurrent ==
    last.op = "flush_diff" =>
        /\ Len(previous) = Len(current)
        /\ \A i \in 1..Len(current) : previous[i] = current[i]
        /\ current = last.current

\* C4 witness: a flush of buffers that differed in every cell.
C4_Witness ==
    /\ last.op = "flush_diff"
    /\ Len(current) >= 2
    /\ \A i \in 1..Len(current) : last.previous[i] # last.current[i]
    /\ previous = current

\* C5: for any grid where current equals previous in every cell, flush_diff
\* writes exactly the SGR reset sequence ESC [ 0 m and nothing else.
C5_NoOpFrameWritesReset ==
    (/\ last.op = "flush_diff"
     /\ \A i \in 1..Len(last.current) : last.current[i] = last.previous[i])
        => output = <<27, 91, 48, 109>>

\* C5 witness: a flush of a grid of two rows whose buffers were equal and
\* not blank.
C5_Witness ==
    /\ last.op = "flush_diff"
    /\ grid_height >= 2
    /\ last.current = last.previous
    /\ \E i \in 1..Len(current) : current[i] # BLANK_CELL
    /\ output = SGR_RESET

(***************************************************************************)
(* REGIONS (tui.py 460-472, 813-823)                                       *)
(***************************************************************************)
DEFAULT_REGION ==
    [region_id |-> 0, name |-> "", top |-> 0, left |-> 0, width |-> 0,
     height |-> 0, scroll_offset |-> 0, lines |-> <<>>, is_focused |-> FALSE]

Max(a, b) == IF a >= b THEN a ELSE b

\* A mutant of scroll_region: the clamp at max_offset (lines 465-466) is
\* missing.
ScrollRegionNoUpperClamp(region, delta) ==
    LET new_offset == region.scroll_offset + delta
    IN  [region EXCEPT !.scroll_offset = IF new_offset < 0 THEN 0 ELSE new_offset]

scroll_region(region, delta) ==
    LET max_offset == Max(0, Len(region.lines) - region.height)
        new_offset == region.scroll_offset + delta
        clamped_low == IF new_offset < 0 THEN 0 ELSE new_offset
        clamped == IF clamped_low > max_offset THEN max_offset ELSE clamped_low
    IN  [region EXCEPT !.scroll_offset = clamped]

page_region(region, direction) ==
    scroll_region(region, (region.height - 1) * direction)

MaxHeight == 3       \* region height
MaxLines == 4        \* content lines of a region
MaxDelta == 2        \* small scroll deltas, besides Home/End's -50000, 50000

Deltas == (-MaxDelta..MaxDelta) \cup {-50000, 50000}

\* n distinct content lines
ContentLines(n) == [i \in 1..n |-> <<"l", Chr(48 + i)>>]

ScrollRegion ==
    \E id \in DOMAIN regions, delta \in Deltas :
        /\ regions' = [regions EXCEPT ![id] = scroll_region(@, delta)]
        /\ last' = [op |-> "scroll_region", id |-> id, delta |-> delta,
                    before |-> regions[id].scroll_offset]
        /\ UNCHANGED <<region_order, focused_region_id, mode, input_buffer,
                       command_buffer,
                       last_event_kind, last_event_mods, last_event_char>>
        /\ UNCHANGED <<termVars, gridVars, inputVars>>

PageRegion ==
    \E id \in DOMAIN regions, direction \in {-1, 1} :
        /\ regions' = [regions EXCEPT ![id] = page_region(@, direction)]
        /\ last' = [op |-> "page_region", id |-> id, delta |-> direction,
                    before |-> regions[id].scroll_offset]
        /\ UNCHANGED <<region_order, focused_region_id, mode, input_buffer,
                       command_buffer,
                       last_event_kind, last_event_mods, last_event_char>>
        /\ UNCHANGED <<termVars, gridVars, inputVars>>

\* One region of any height (main can compute a negative one for a small
\* terminal, line 891), any number of lines and any starting offset.
InitRegion ==
    /\ \E h \in -1..MaxHeight, n \in 0..MaxLines, off \in -1..(MaxLines + 1) :
          regions = (1 :> [DEFAULT_REGION EXCEPT !.region_id = 1,
                                                 !.name = "content",
                                                 !.height = h,
                                                 !.lines = ContentLines(n),
                                                 !.scroll_offset = off,
                                                 !.is_focused = TRUE])
    /\ region_order = <<1>>
    /\ focused_region_id = 1
    /\ mode = MODE_NORMAL
    /\ input_buffer = <<>>
    /\ command_buffer = <<>>
    /\ last_event_kind = "none"
    /\ last_event_mods = 0
    /\ last_event_char = ""
    /\ IdleTerm /\ IdleGrid /\ IdleInput
    /\ last = [op |-> "init"]

NextRegion ==
    \/ ScrollRegion
    \/ PageRegion

SpecRegion == InitRegion /\ [][NextRegion]_vars

\* C7: for any region and any sequence of scroll_region deltas, very large
\* positive and negative ones included, scroll_offset after each call lies
\* in [0, max(0, len(lines) - height)].
C7_ScrollOffsetClamped ==
    last.op \in {"scroll_region", "page_region"} =>
        LET region == regions[last.id]
        IN  /\ region.scroll_offset >= 0
            /\ region.scroll_offset <= Max(0, Len(region.lines) - region.height)

\* C7 witness: End's delta of 50000 on a region with more lines than rows
\* stops at len(lines) - height.
C7_Witness ==
    /\ last.op = "scroll_region"
    /\ last.delta = 50000
    /\ Len(regions[last.id].lines) > regions[last.id].height
    /\ regions[last.id].height > 0
    /\ regions[last.id].scroll_offset
          = Len(regions[last.id].lines) - regions[last.id].height

\* C32: page_region never moves the wrong way: for every region (height 0
\* or 1 included) whose offset is within the clamp range, page_region with
\* direction +1 never decreases scroll_offset and with direction -1 never
\* increases it.
C32_PageNeverWrongWay ==
    LET region == regions[last.id]
    IN  (/\ last.op = "page_region"
         /\ 0 <= last.before
         /\ last.before <= Max(0, Len(region.lines) - region.height))
            => /\ last.delta = 1 => region.scroll_offset >= last.before
               /\ last.delta = -1 => region.scroll_offset <= last.before

(***************************************************************************)
(* INPUT / KEY PARSING (tui.py 531-747)                                    *)
(*                                                                         *)
(* Indices into raw_bytes are 0-based as in the program: the byte at       *)
(* index i is raw[i + 1].                                                  *)
(***************************************************************************)
\* None where the program holds an event or None (a ring slot, a result)
NoEvent == [kind |-> "None"]

Event(kind, char, raw, modifiers) ==
    [kind |-> kind, char |-> char, raw |-> raw, modifiers |-> modifiers]

\* raw_bytes[start:stop]
Slice(raw, start, stop) == SubSeq(raw, start + 1, stop)

IsDigit(byte) == Ord("0") <= byte /\ byte <= Ord("9")

RECURSIVE SplitOn(_, _)
\* text.split(sep) for a non-empty text
SplitOn(text, sep) ==
    LET hits == {i \in 1..Len(text) : text[i] = sep}
    IN  IF hits = {} THEN <<text>>
        ELSE LET first == CHOOSE i \in hits : \A j \in hits : i <= j
             IN  <<SubSeq(text, 1, first - 1)>>
                     \o SplitOn(SubSeq(text, first + 1, Len(text)), sep)

RECURSIVE DecimalValue(_)
\* int(text) for a text of digits
DecimalValue(text) ==
    IF Len(text) = 0 THEN 0
    ELSE 10 * DecimalValue(SubSeq(text, 1, Len(text) - 1))
            + (text[Len(text)] - Ord("0"))

\* lines 695-699: int(params[1]), 0 when it raises ValueError (empty field)
ModifierParam(field) == IF field = <<>> THEN 0 ELSE DecimalValue(field)

\* A mutant of the remap: XTerm's bit positions taken for the engine's own.
XtermModifiersSameBits(xterm_bits) == xterm_bits % 16

\* lines 700-708: XTerm's bits onto the MOD_KEY_* bits
XtermModifiers(xterm_bits) ==
    (IF HasBit(xterm_bits, 1) THEN MOD_KEY_SHIFT ELSE 0)
        + (IF HasBit(xterm_bits, 2) THEN MOD_KEY_ALT ELSE 0)
        + (IF HasBit(xterm_bits, 4) THEN MOD_KEY_CTRL ELSE 0)
        + (IF HasBit(xterm_bits, 8) THEN MOD_KEY_SUPER ELSE 0)

\* A mutant of the SS3 table: ESC O H and ESC O F are taken for Home and End
\* as their CSI forms are.
Ss3KindWithHomeEnd(final) ==
    CASE final = Ord("A") -> "arrow_up"
      [] final = Ord("B") -> "arrow_down"
      [] final = Ord("C") -> "arrow_right"
      [] final = Ord("D") -> "arrow_left"
      [] final = Ord("H") -> "home"
      [] final = Ord("F") -> "end"
      [] OTHER -> ""

\* lines 637-645: the kind of an SS3 final byte, "" when there is none
Ss3Kind(final) ==
    CASE final = Ord("A") -> "arrow_up"
      [] final = Ord("B") -> "arrow_down"
      [] final = Ord("C") -> "arrow_right"
      [] final = Ord("D") -> "arrow_left"
      [] OTHER -> ""

\* A mutant of the kind table: every ESC [ ... ~ is Home, whatever its first
\* parameter.
CsiKindTildeAlwaysHome(final_byte, first_param) ==
    CASE final_byte = Ord("A") -> "arrow_up"
      [] final_byte = Ord("B") -> "arrow_down"
      [] final_byte = Ord("C") -> "arrow_right"
      [] final_byte = Ord("D") -> "arrow_left"
      [] final_byte = Ord("H") -> "home"
      [] final_byte = Ord("F") -> "end"
      [] final_byte = Ord("~") -> "home"
      [] OTHER -> ""

\* lines 713-735: the kind of a CSI final byte and first parameter
CsiKind(final_byte, first_param) ==
    CASE final_byte = Ord("A") -> "arrow_up"
      [] final_byte = Ord("B") -> "arrow_down"
      [] final_byte = Ord("C") -> "arrow_right"
      [] final_byte = Ord("D") -> "arrow_left"
      [] final_byte = Ord("H") -> "home"
      [] final_byte = Ord("F") -> "end"
      [] final_byte = Ord("~") ->
            (CASE first_param \in {<<Ord("1")>>, <<Ord("7")>>} -> "home"
               [] first_param \in {<<Ord("4")>>, <<Ord("8")>>} -> "end"
               [] first_param = <<Ord("5")>> -> "page_up"
               [] first_param = <<Ord("6")>> -> "page_down"
               [] OTHER -> "")
      [] OTHER -> ""

RECURSIVE ParamEnd(_, _)
\* lines 669-678: the index of the first byte from `index` on that is no
\* digit and no semicolon, len(raw_bytes) when there is none
ParamEnd(raw, index) ==
    IF index < Len(raw) /\ (IsDigit(raw[index + 1]) \/ raw[index + 1] = Ord(";"))
    THEN ParamEnd(raw, index + 1)
    ELSE index

\* A mutant of the CSI branch: a sequence that ends with the buffer before
\* its final byte is taken to have one (the test of lines 680-682 missing,
\* the index advanced past the final byte that is not there).
ParseCsiSkipsMissingFinal(raw, start_index) ==
    LET stop == ParamEnd(raw, start_index + 2)
    IN  IF stop >= Len(raw) THEN [event |-> NoEvent, index |-> stop + 1]
        ELSE LET final_byte == raw[stop + 1]
                 index == stop + 1
                 param_string == Slice(raw, start_index + 2, stop)
                 params == IF param_string # <<>>
                           THEN SplitOn(param_string, Ord(";"))
                           ELSE <<>>
                 modifiers == IF Len(params) >= 2
                              THEN XtermModifiers(ModifierParam(params[2]) - 1)
                              ELSE 0
                 first_param == IF params # <<>> THEN params[1] ELSE <<>>
                 kind == CsiKind(final_byte, first_param)
             IN  IF kind = "" THEN [event |-> NoEvent, index |-> index]
                 ELSE [event |-> Event(kind, "", Slice(raw, start_index, index),
                                       modifiers),
                       index |-> index]

\* parse_escape_sequence lines 666-747: after ESC [
ParseCsi(raw, start_index) ==
    LET stop == ParamEnd(raw, start_index + 2)
    IN  IF stop >= Len(raw) THEN [event |-> NoEvent, index |-> stop]
        ELSE LET final_byte == raw[stop + 1]
                 index == stop + 1
                 param_string == Slice(raw, start_index + 2, stop)
                 params == IF param_string # <<>>
                           THEN SplitOn(param_string, Ord(";"))
                           ELSE <<>>
                 modifiers == IF Len(params) >= 2
                              THEN XtermModifiers(ModifierParam(params[2]) - 1)
                              ELSE 0
                 first_param == IF params # <<>> THEN params[1] ELSE <<>>
                 kind == CsiKind(final_byte, first_param)
             IN  IF kind = "" THEN [event |-> NoEvent, index |-> index]
                 ELSE [event |-> Event(kind, "", Slice(raw, start_index, index),
                                       modifiers),
                       index |-> index]

\* A mutant of parse_escape_sequence: the byte after an ESC that starts no
\* sequence is consumed with it (line 664 returning index + 1).
ParseEscapeConsumesNext(raw, start_index) ==
    LET index == start_index + 1
        escape == Event("escape", "", <<ESC>>, 0)
    IN  IF index >= Len(raw) THEN [event |-> escape, index |-> index]
        ELSE IF raw[index + 1] = Ord("O")
        THEN IF index + 1 >= Len(raw) THEN [event |-> NoEvent, index |-> index + 1]
             ELSE LET ss3_kind == Ss3Kind(raw[index + 2])
                  IN  IF ss3_kind = ""
                      THEN [event |-> NoEvent, index |-> index + 2]
                      ELSE [event |-> Event(ss3_kind, "",
                                            Slice(raw, start_index, index + 2), 0),
                            index |-> index + 2]
        ELSE IF raw[index + 1] # Ord("[")
        THEN [event |-> escape, index |-> index + 1]
        ELSE ParseCsi(raw, start_index)

\* parse_escape_sequence(raw_bytes, start_index): (event or None, next index)
parse_escape_sequence(raw, start_index) ==
    LET index == start_index + 1
        escape == Event("escape", "", <<ESC>>, 0)
    IN  IF index >= Len(raw) THEN [event |-> escape, index |-> index]
        ELSE IF raw[index + 1] = Ord("O")
        THEN IF index + 1 >= Len(raw) THEN [event |-> NoEvent, index |-> index + 1]
             ELSE LET ss3_kind == Ss3Kind(raw[index + 2])
                  IN  IF ss3_kind = ""
                      THEN [event |-> NoEvent, index |-> index + 2]
                      ELSE [event |-> Event(ss3_kind, "",
                                            Slice(raw, start_index, index + 2), 0),
                            index |-> index + 2]
        ELSE IF raw[index + 1] # Ord("[")
        THEN [event |-> escape, index |-> index]
        ELSE ParseCsi(raw, start_index)

\* A mutant of the classifier: the Ctrl range is tested before 0x0D.
ClassifyByteCtrlFirst(byte_value) ==
    IF 1 <= byte_value /\ byte_value <= 26
    THEN Event("char", Chr(byte_value + 96), <<byte_value>>, MOD_KEY_CTRL)
    ELSE IF byte_value = 127 THEN Event("backspace", "", <<byte_value>>, 0)
    ELSE IF 32 <= byte_value /\ byte_value <= 126
    THEN Event("char", Chr(byte_value), <<byte_value>>, 0)
    ELSE NoEvent

\* write_events_to_ring lines 555-589: the event of a byte other than ESC
ClassifyByte(byte_value) ==
    IF byte_value = 13 THEN Event("enter", "", <<byte_value>>, 0)
    ELSE IF byte_value = 127 THEN Event("backspace", "", <<byte_value>>, 0)
    ELSE IF 32 <= byte_value /\ byte_value <= 126
    THEN Event("char", Chr(byte_value), <<byte_value>>, 0)
    ELSE IF 1 <= byte_value /\ byte_value <= 26
    THEN Event("char", Chr(byte_value + 96), <<byte_value>>, MOD_KEY_CTRL)
    ELSE NoEvent

\* ring[write_index] = event; write_index = (write_index + 1) % capacity.
\* `pushed` lists the events pushed by the call, in order.
Push(st, event) ==
    [ring |-> [st.ring EXCEPT ![st.write_index] = event],
     write_index |-> (st.write_index + 1) % RING_BUFFER_CAPACITY,
     pushed |-> Append(st.pushed, event)]

RECURSIVE DecodeFrom(_, _, _)
\* write_events_to_ring lines 541-593: the loop from byte_index on
DecodeFrom(raw, byte_index, st) ==
    IF byte_index >= Len(raw) THEN st
    ELSE IF raw[byte_index + 1] = ESC
    THEN LET result == parse_escape_sequence(raw, byte_index)
         IN  DecodeFrom(raw, result.index,
                        IF result.event # NoEvent THEN Push(st, result.event)
                        ELSE st)
    ELSE LET event == ClassifyByte(raw[byte_index + 1])
         IN  DecodeFrom(raw, byte_index + 1,
                        IF event # NoEvent THEN Push(st, event) ELSE st)

write_events_to_ring(raw, ring, write_index) ==
    DecodeFrom(raw, 0, [ring |-> ring, write_index |-> write_index,
                        pushed |-> <<>>])

\* A mutant of the read: the ring is taken for empty whenever the read index
\* is not below the write index.
ReadEventFromRingNoWrap(ring, read_index, write_index) ==
    IF read_index >= write_index
    THEN [event |-> NoEvent, read_index |-> read_index]
    ELSE [event |-> ring[read_index],
          read_index |-> (read_index + 1) % RING_BUFFER_CAPACITY]

\* read_event_from_ring: the event returned (or None) and the read index
read_event_from_ring(ring, read_index, write_index) ==
    IF read_index = write_index
    THEN [event |-> NoEvent, read_index |-> read_index]
    ELSE [event |-> ring[read_index],
          read_index |-> (read_index + 1) % RING_BUFFER_CAPACITY]

EmptyRing == [i \in 0..(RING_BUFFER_CAPACITY - 1) |-> NoEvent]

(***************************************************************************)
(* SpecDecode: one read of bytes decoded into an empty ring.               *)
(***************************************************************************)
ArrowFinals == {Ord("A"), Ord("B"), Ord("C"), Ord("D")}

\* ESC [ 1 ; m <final>
CsiModified(m, final) ==
    <<ESC>> \o Encode(<<"[", "1", ";">> \o Digits(m)) \o <<final>>

\* Escape sequences that end with the buffer before their final byte.
IncompleteSequences ==
    {<<ESC>> \o Encode(<<"O">>),
     <<ESC>> \o Encode(<<"[", "1">>),
     <<ESC>> \o Encode(<<"[", "1", ";">>),
     <<ESC>> \o Encode(<<"[", "1", ";", "5">>)}

\* Whole escape sequences the tables of parse_escape_sequence do not map.
UnrecognisedSequences ==
    {<<ESC>> \o Encode(<<"O", "x">>),
     <<ESC>> \o Encode(<<"O", "E">>),
     <<ESC>> \o Encode(<<"O", "1">>),
     <<ESC>> \o Encode(<<"[", "Z">>),
     <<ESC>> \o Encode(<<"[", "x">>),
     <<ESC>> \o Encode(<<"[", "9", "~">>),
     <<ESC>> \o Encode(<<"[", "~">>),
     <<ESC>> \o Encode(<<"[", "1", ";", "5", "Z">>),
     <<ESC>> \o Encode(<<"[", "2", ";", "5", "~">>)}

\* Bytes read before or after such a sequence, with the keys they decode to
\* on their own (kind, char, modifiers).
Neighbours ==
    {[bytes |-> <<>>, keys |-> <<>>],
     [bytes |-> Encode(<<"x">>), keys |-> <<<<"char", "x", 0>>>>],
     [bytes |-> Encode(<<"A">>), keys |-> <<<<"char", "A", 0>>>>],
     [bytes |-> <<13>>, keys |-> <<<<"enter", "", 0>>>>],
     [bytes |-> <<ESC>> \o Encode(<<"[", "A">>),
      keys |-> <<<<"arrow_up", "", 0>>>>]}

\* ESC [ 1 ; <field> <final>: the second parameter field given as bytes
CsiSecondField(field, final) ==
    <<ESC>> \o Encode(<<"[", "1", ";">>) \o field \o <<final>>

\* Second fields that are empty or written with leading zeros.
OddSecondFields ==
    {<<>>, Encode(<<"0">>), Encode(<<"0", "0">>), Encode(<<"0", "1">>),
     Encode(<<"0", "5">>), Encode(<<"1", "7">>)}

\* Parameter bytes of a CSI sequence: none, each single digit, numbers
\* written with two digits, and first fields followed by a second one.
CsiParams ==
    {<<>>} \cup {<<d>> : d \in Ord("0")..Ord("9")}
        \cup {Encode(<<"0", "1">>), Encode(<<"1", "5">>), Encode(<<"5", "0">>),
              Encode(<<"1", ";", "5">>), Encode(<<"6", ";", "2">>),
              Encode(<<";", "5">>), Encode(<<"1", "5", ";", "2">>)}

DecodeInputs ==
    {<<b>> : b \in 0..255}
        \cup {<<b, Ord("x")>> : b \in 0..255}
        \cup {<<ESC, b>> : b \in 0..255}
        \cup {<<ESC>> \o n.bytes : n \in Neighbours}
        \cup {n.bytes \o <<ESC>> : n \in Neighbours}
        \cup {<<ESC, Ord("O"), f>> : f \in 0..255}
        \cup {<<ESC, Ord("[")>> \o params \o <<f>> :
                  params \in CsiParams, f \in 0..255}
        \cup {<<ESC, Ord("O"), f, Ord("x")>> : f \in ArrowFinals}
        \cup {<<ESC, Ord("[")>> \o params \o Encode(<<"~", "x">>) :
                  params \in CsiParams}
        \cup {CsiModified(m, f) : m \in 1..16, f \in ArrowFinals}
        \cup {n.bytes \o q : n \in Neighbours, q \in IncompleteSequences}
        \cup {q \o n.bytes : q \in UnrecognisedSequences, n \in Neighbours}
        \cup {CsiSecondField(field, f) : field \in OddSecondFields,
                                        f \in ArrowFinals}
        \cup {<<ESC>> \o Encode(<<"[", "5", ";">>) \o field \o Encode(<<"~">>) :
                  field \in OddSecondFields}

\* os.read returned the bytes in raw_bytes; write_events_to_ring decodes them.
WriteEventsToRing ==
    /\ raw_bytes # <<>>
    /\ LET st == write_events_to_ring(raw_bytes, event_ring, ring_write_index)
       IN  /\ event_ring' = st.ring
           /\ ring_write_index' = st.write_index
           /\ unread' = unread \o st.pushed
           /\ last' = [op |-> "write_events_to_ring", raw |-> raw_bytes,
                       pushed |-> st.pushed]
    /\ raw_bytes' = <<>>
    /\ UNCHANGED <<ring_read_index, returned>>
    /\ UNCHANGED <<termVars, gridVars, appVars>>

InitDecode ==
    /\ event_ring = EmptyRing
    /\ ring_write_index = 0
    /\ ring_read_index = 0
    /\ raw_bytes \in DecodeInputs
    /\ unread = <<>>
    /\ returned = NoEvent
    /\ IdleTerm /\ IdleGrid /\ IdleApp
    /\ last = [op |-> "init"]

NextDecode == WriteEventsToRing

SpecDecode == InitDecode /\ [][NextDecode]_vars

(***************************************************************************)
(* Claims about decoding.                                                  *)
(***************************************************************************)
ArrowKindOf(final) ==
    CASE final = Ord("A") -> "arrow_up"
      [] final = Ord("B") -> "arrow_down"
      [] final = Ord("C") -> "arrow_right"
      [] final = Ord("D") -> "arrow_left"

\* The engine's modifier set for XTerm's bits: Shift 1, Alt 2, Ctrl 4, Super 8.
RemapOf(xterm) ==
    (IF xterm % 2 = 1 THEN MOD_KEY_SHIFT ELSE 0)
        + (IF (xterm \div 2) % 2 = 1 THEN MOD_KEY_ALT ELSE 0)
        + (IF (xterm \div 4) % 2 = 1 THEN MOD_KEY_CTRL ELSE 0)
        + (IF (xterm \div 8) % 2 = 1 THEN MOD_KEY_SUPER ELSE 0)

\* C8: ESC [ 1 ; m <A|B|C|D> with m in 1..16 decodes to one event of the
\* matching arrow kind whose modifiers are exactly the remap of m - 1 (XTerm
\* bit 0 to Shift, 1 to Alt, 2 to Ctrl, 3 to Super); ESC [ 1 ; 5 C gives
\* arrow_right with only the Ctrl bit.
C8_CsiArrowModifiers ==
    last.op = "write_events_to_ring" =>
        /\ \A m \in 1..16, f \in ArrowFinals :
              last.raw = CsiModified(m, f) =>
                  /\ Len(last.pushed) = 1
                  /\ last.pushed[1].kind = ArrowKindOf(f)
                  /\ last.pushed[1].modifiers = RemapOf(m - 1)
                  /\ event_ring[0] = last.pushed[1]
                  /\ ring_write_index = 1
        /\ last.raw = <<27, 91, 49, 59, 53, 67>> =>
              /\ Len(last.pushed) = 1
              /\ last.pushed[1].kind = "arrow_right"
              /\ last.pushed[1].modifiers = MOD_KEY_CTRL

\* C8 witness: ESC [ 1 ; 5 C has been decoded.
C8_Witness ==
    /\ last.op = "write_events_to_ring"
    /\ last.raw = CsiModified(5, Ord("C"))
    /\ event_ring[0].kind = "arrow_right"
    /\ event_ring[0].modifiers = 2

\* What C9 says a byte other than 0x1B decodes to: kind, char, modifiers.
ClaimedKeys(b) ==
    IF b = 13 THEN <<<<"enter", "", 0>>>>
    ELSE IF b = 127 THEN <<<<"backspace", "", 0>>>>
    ELSE IF b \in 32..126 THEN <<<<"char", Chr(b), 0>>>>
    ELSE IF b \in 1..26 THEN <<<<"char", Chr(b + 96), MOD_KEY_CTRL>>>>
    ELSE <<>>

KeysOf(events) ==
    [i \in 1..Len(events) |->
        <<events[i].kind, events[i].char, events[i].modifiers>>]

\* C9: every byte other than 0x1B is classified by exact value and consumes
\* exactly one byte: 0x0D Enter, 0x7F Backspace, 0x20-0x7E a char event with
\* that character and no modifiers, 0x01-0x1A other than 0x0D a char event
\* with the letter byte + 0x60 and exactly Ctrl (0x01 'a', 0x09 'i'), every
\* other byte no event; the byte after it is decoded on its own.
C9_ByteClassification ==
    last.op = "write_events_to_ring" =>
        /\ \A b \in (0..255) \ {ESC} :
              /\ last.raw = <<b>> => KeysOf(last.pushed) = ClaimedKeys(b)
              /\ last.raw = <<b, Ord("x")>> =>
                    KeysOf(last.pushed) = ClaimedKeys(b) \o <<<<"char", "x", 0>>>>
        /\ last.raw = <<1>> => KeysOf(last.pushed) = <<<<"char", "a", MOD_KEY_CTRL>>>>
        /\ last.raw = <<9>> => KeysOf(last.pushed) = <<<<"char", "i", MOD_KEY_CTRL>>>>

\* C9 witness: the byte 0x01 followed by 'x' has been decoded into two
\* events, Ctrl+a first.
C9_Witness ==
    /\ last.op = "write_events_to_ring"
    /\ last.raw = <<1, Ord("x")>>
    /\ ring_write_index = 2
    /\ event_ring[0].char = "a"
    /\ event_ring[0].modifiers = MOD_KEY_CTRL
    /\ event_ring[1].char = "x"

\* C21: an incomplete or unrecognised escape sequence pushes no event and
\* consumes only its own bytes: the events pushed by a read that ends with an
\* incomplete sequence are those of the bytes before it, and the events pushed
\* by a read that starts with an unrecognised sequence are those of the bytes
\* after it, the first of them included.
C21_MalformedSequencesSkipped ==
    last.op = "write_events_to_ring" =>
        /\ \A n \in Neighbours, q \in IncompleteSequences :
              last.raw = n.bytes \o q =>
                  /\ KeysOf(last.pushed) = n.keys
                  /\ ring_write_index = Len(n.keys)
        /\ \A q \in UnrecognisedSequences, n \in Neighbours :
              last.raw = q \o n.bytes =>
                  /\ KeysOf(last.pushed) = n.keys
                  /\ ring_write_index = Len(n.keys)

\* C21 witness: ESC [ 9 ~ followed by ESC [ A has been decoded into the one
\* arrow_up event of the second sequence.
C21_Witness ==
    /\ last.op = "write_events_to_ring"
    /\ last.raw = <<ESC>> \o Encode(<<"[", "9", "~">>) \o <<ESC>> \o Encode(<<"[", "A">>)
    /\ ring_write_index = 1
    /\ event_ring[0].kind = "arrow_up"
    /\ event_ring[0].raw = <<ESC>> \o Encode(<<"[", "A">>)

\* C35: an ESC byte that is the last byte of the buffer, or is followed by a
\* byte other than 'O' or '[', yields a bare Escape event with no modifiers
\* that consumes only the ESC byte; the following byte is then classified by
\* the decode loop as a fresh byte (ESC 'a' yields Escape then char 'a',
\* ESC ESC two Escape events, ESC before ESC [ A Escape then arrow_up).
C35_BareEscape ==
    LET escape_key == <<"escape", "", 0>>
    IN  last.op = "write_events_to_ring" =>
            /\ \A n \in Neighbours :
                  /\ last.raw = n.bytes \o <<ESC>> =>
                        /\ KeysOf(last.pushed) = Append(n.keys, escape_key)
                        /\ last.pushed[Len(last.pushed)].raw = <<ESC>>
                  /\ last.raw = <<ESC>> \o n.bytes =>
                        /\ KeysOf(last.pushed) = <<escape_key>> \o n.keys
                        /\ last.pushed[1].raw = <<ESC>>
            /\ \A b \in (0..255) \ {Ord("O"), Ord("[")} :
                  last.raw = <<ESC, b>> =>
                      /\ KeysOf(last.pushed) =
                            <<escape_key>> \o (IF b = ESC THEN <<escape_key>>
                                               ELSE ClaimedKeys(b))
                      /\ last.pushed[1].raw = <<ESC>>
                      /\ ring_write_index = Len(last.pushed)
            /\ last.raw = <<ESC, Ord("a")>> =>
                  KeysOf(last.pushed) = <<escape_key, <<"char", "a", 0>>>>

\* C35 witness: ESC followed by ESC [ A has been decoded into a bare Escape
\* and the arrow_up of the sequence the second ESC starts.
C35_Witness ==
    /\ last.op = "write_events_to_ring"
    /\ last.raw = <<ESC, ESC>> \o Encode(<<"[", "A">>)
    /\ ring_write_index = 2
    /\ event_ring[0].kind = "escape"
    /\ event_ring[0].raw = <<ESC>>
    /\ event_ring[1].kind = "arrow_up"
    /\ event_ring[1].raw = <<ESC>> \o Encode(<<"[", "A">>)

\* The parameter bytes before the first semicolon.
FirstField(params) ==
    LET semis == {i \in 1..Len(params) : params[i] = Ord(";")}
    IN  IF semis = {} THEN params
        ELSE SubSeq(params, 1, (CHOOSE i \in semis : \A j \in semis : i <= j) - 1)

\* The kind C36's table gives a CSI final byte and first parameter, "" for
\* no event.
TableKind(final, first) ==
    IF final \in ArrowFinals THEN ArrowKindOf(final)
    ELSE IF final = Ord("H") THEN "home"
    ELSE IF final = Ord("F") THEN "end"
    ELSE IF final = Ord("~") /\ first \in {Encode(<<"1">>), Encode(<<"7">>)}
    THEN "home"
    ELSE IF final = Ord("~") /\ first \in {Encode(<<"4">>), Encode(<<"8">>)}
    THEN "end"
    ELSE IF final = Ord("~") /\ first = Encode(<<"5">>) THEN "page_up"
    ELSE IF final = Ord("~") /\ first = Encode(<<"6">>) THEN "page_down"
    ELSE ""

\* C36: the kind of the event of a complete escape sequence follows the
\* table: ESC O A/B/C/D gives arrow up/down/right/left with no modifiers;
\* CSI final A/B/C/D gives the same arrows, H home, F end, '~' with first
\* parameter 1 or 7 home, 4 or 8 end, 5 page_up, 6 page_down; every other
\* final byte or parameter yields no event; and the event's raw field is
\* exactly the bytes consumed for the sequence, the byte after it being
\* decoded on its own.
C36_KindTable ==
    LET raw == last.raw
        \* the sequence with one character after it, or on its own
        followed == Len(raw) >= 4 /\ raw[Len(raw)] = Ord("x")
                                 /\ raw[Len(raw) - 1] \in ArrowFinals \cup {Ord("~")}
        seq == IF followed THEN SubSeq(raw, 1, Len(raw) - 1) ELSE raw
        after == IF followed THEN <<<<"char", "x", 0>>>> ELSE <<>>
        final == seq[Len(seq)]
        params == SubSeq(seq, 3, Len(seq) - 1)
    IN  (/\ last.op = "write_events_to_ring"
         /\ Len(raw) >= 3
         /\ raw[1] = ESC)
            => /\ (raw[2] = Ord("O") /\ Len(seq) = 3) =>
                    IF final \in ArrowFinals
                    THEN /\ KeysOf(last.pushed) =
                               <<<<ArrowKindOf(final), "", 0>>>> \o after
                         /\ last.pushed[1].raw = seq
                    ELSE KeysOf(last.pushed) = after
               /\ (/\ raw[2] = Ord("[")
                   /\ params \in CsiParams
                   /\ ~IsDigit(final)
                   /\ final # Ord(";")) =>
                    IF TableKind(final, FirstField(params)) # ""
                    THEN /\ Len(last.pushed) = 1 + Len(after)
                         /\ last.pushed[1].kind =
                               TableKind(final, FirstField(params))
                         /\ last.pushed[1].char = ""
                         /\ last.pushed[1].raw = seq
                         /\ Tail(KeysOf(last.pushed)) = after
                    ELSE KeysOf(last.pushed) = after

\* C36 witness: ESC [ 6 ; 2 ~ followed by x has been decoded into a
\* page_down event whose raw field is the six bytes of the sequence, and
\* the character x.
C36_Witness ==
    /\ last.op = "write_events_to_ring"
    /\ last.raw = <<ESC>> \o Encode(<<"[", "6", ";", "2", "~", "x">>)
    /\ ring_write_index = 2
    /\ event_ring[0].kind = "page_down"
    /\ event_ring[0].raw = <<ESC>> \o Encode(<<"[", "6", ";", "2", "~">>)
    /\ event_ring[1].char = "x"

\* C22: the modifier bits of a CSI event are those of its second parameter
\* field; a second field that is empty, 0 or 1 gives an event without any
\* modifier bit, every other value the remap of the value minus one.
C22_SecondFieldModifiers ==
    last.op = "write_events_to_ring" =>
        \A field \in OddSecondFields, f \in ArrowFinals :
            last.raw = CsiSecondField(field, f) =>
                /\ Len(last.pushed) = 1
                /\ last.pushed[1].kind = ArrowKindOf(f)
                /\ last.pushed[1].modifiers =
                       (IF field = <<>> \/ DecimalValue(field) \in {0, 1} THEN 0
                        ELSE RemapOf(DecimalValue(field) - 1))

(***************************************************************************)
(* SpecSplit: a byte string that reaches write_events_to_ring in two reads.*)
(***************************************************************************)
MaxStream == 3       \* bytes of the whole string

SplitAlphabet ==
    {ESC, Ord("["), Ord("O"), Ord("A"), Ord("1"), Ord(";"), Ord("x")}

Streams ==
    UNION {[1..n -> SplitAlphabet] : n \in 1..MaxStream}

\* main lines 918-921: the next read of the stream is decoded into the ring.
WriteChunk ==
    /\ last.op \in {"split_args", "split_write"}
    /\ last.chunks # <<>>
    /\ LET st == write_events_to_ring(Head(last.chunks), event_ring,
                                      ring_write_index)
       IN  /\ event_ring' = st.ring
           /\ ring_write_index' = st.write_index
           /\ unread' = unread \o st.pushed
    /\ last' = [last EXCEPT !.op = "split_write", !.chunks = Tail(last.chunks)]
    /\ UNCHANGED <<ring_read_index, raw_bytes, returned>>
    /\ UNCHANGED <<termVars, gridVars, appVars>>

InitSplit ==
    /\ event_ring = EmptyRing
    /\ ring_write_index = 0
    /\ ring_read_index = 0
    /\ raw_bytes = <<>>
    /\ unread = <<>>
    /\ returned = NoEvent
    /\ IdleTerm /\ IdleGrid /\ IdleApp
    /\ \E whole \in Streams : \E cut \in 0..Len(whole) :
          /\ Len(whole) < RING_BUFFER_CAPACITY
          /\ last = [op |-> "split_args", whole |-> whole,
                     chunks |-> <<Slice(whole, 0, cut),
                                  Slice(whole, cut, Len(whole))>>]

NextSplit == WriteChunk

SpecSplit == InitSplit /\ [][NextSplit]_vars

\* C23: decoding does not depend on how the stream is split across reads:
\* the events pushed by write_events_to_ring(a) then write_events_to_ring(b)
\* are those pushed by one write_events_to_ring(a ++ b).
C23_SplitIndependent ==
    (last.op = "split_write" /\ last.chunks = <<>>) =>
        unread = write_events_to_ring(last.whole, EmptyRing, 0).pushed

(***************************************************************************)
(* SpecRing: reads of bytes decoded into the ring and events read from it, *)
(* up to one full lap of unread events.                                    *)
(***************************************************************************)
MaxRead == 2         \* bytes returned by one os.read

RingInputs ==
    UNION {[1..n -> {Ord("a"), Ord("b"), 0}] : n \in 1..MaxRead}

\* main lines 919-921: bytes are ready and are decoded into the ring.
RingWrite ==
    \E bytes \in RingInputs :
        LET st == write_events_to_ring(bytes, event_ring, ring_write_index)
        IN  /\ Len(unread) + Len(st.pushed) <= RING_BUFFER_CAPACITY
            /\ event_ring' = st.ring
            /\ ring_write_index' = st.write_index
            /\ unread' = unread \o st.pushed
            /\ last' = [op |-> "write_events_to_ring", raw |-> bytes,
                        pushed |-> st.pushed]
            /\ UNCHANGED <<ring_read_index, raw_bytes, returned>>
            /\ UNCHANGED <<termVars, gridVars, appVars>>

\* main lines 922, 981: event = read_event_from_ring(app_state)
RingRead ==
    LET got == read_event_from_ring(event_ring, ring_read_index, ring_write_index)
    IN  /\ returned' = got.event
        /\ ring_read_index' = got.read_index
        /\ unread' = IF got.event # NoEvent THEN Tail(unread) ELSE unread
        /\ last' = [op |-> "read_event_from_ring"]
        /\ UNCHANGED <<event_ring, ring_write_index, raw_bytes>>
        /\ UNCHANGED <<termVars, gridVars, appVars>>

InitRing ==
    /\ event_ring = EmptyRing
    /\ ring_write_index = 0
    /\ ring_read_index = 0
    /\ raw_bytes = <<>>
    /\ unread = <<>>
    /\ returned = NoEvent
    /\ IdleTerm /\ IdleGrid /\ IdleApp
    /\ last = [op |-> "init"]

NextRing ==
    \/ RingWrite
    \/ RingRead

SpecRing == InitRing /\ [][NextRing]_vars

RECURSIVE Drain(_, _, _)
\* What successive read_event_from_ring calls return until the first None.
Drain(ring, read_index, write_index) ==
    LET got == read_event_from_ring(ring, read_index, write_index)
    IN  IF got.event = NoEvent THEN <<>>
        ELSE <<got.event>> \o Drain(ring, got.read_index, write_index)

\* C6: when capacity events have been written with none of them read, so
\* that write_index has caught up with read_index after a full lap, only the
\* oldest unread event is lost: the following reads return every other
\* unread event, in the order written.
C6_OverflowLosesOnlyOldest ==
    Len(unread) = RING_BUFFER_CAPACITY =>
        Drain(event_ring, ring_read_index, ring_write_index) = Tail(unread)

(***************************************************************************)
(* SpecFifo: the ring while it does not overflow: a read is decoded only   *)
(* when it leaves at most capacity - 1 events unread.                      *)
(***************************************************************************)
FifoWrite ==
    /\ RingWrite
    /\ Len(unread') <= RING_BUFFER_CAPACITY - 1

NextFifo ==
    \/ FifoWrite
    \/ RingRead

SpecFifo == InitRing /\ [][NextFifo]_vars

\* C28: while at most capacity - 1 events are unread, read_event_from_ring
\* returns the oldest event pushed and not yet returned, so every pushed
\* event once and in push order; it returns None exactly when read_index
\* equals write_index, which is exactly when no pushed event is unread, and
\* then changes nothing; a read never changes write_index or the slots and a
\* write never changes read_index.
C28_RingIsFifo ==
    /\ [][last'.op = "read_event_from_ring" =>
            /\ (returned' = NoEvent) <=> (ring_read_index = ring_write_index)
            /\ (unread = <<>>) <=> (ring_read_index = ring_write_index)
            /\ unread # <<>> =>
                  /\ returned' = Head(unread)
                  /\ ring_read_index'
                        = (ring_read_index + 1) % RING_BUFFER_CAPACITY
            /\ unread = <<>> => ring_read_index' = ring_read_index
            /\ ring_write_index' = ring_write_index
            /\ event_ring' = event_ring]_vars
    /\ [][last'.op = "write_events_to_ring" =>
            ring_read_index' = ring_read_index]_vars

\* C28 witness: after the write index has wrapped round, a read returned the
\* older of two unread events and left the newer one.
C28_Witness ==
    /\ last.op = "read_event_from_ring"
    /\ returned.kind = "char"
    /\ returned.char = "a"
    /\ ring_read_index = 0
    /\ ring_write_index = 1
    /\ Len(unread) = 1
    /\ unread[1].char = "b"
    /\ event_ring[RING_BUFFER_CAPACITY - 1] = returned

(***************************************************************************)
(* APPLICATION STATE: cycle_focus (tui.py 767-787)                         *)
(***************************************************************************)
\* lines 778-782: the 0-based index of the first occurrence of current_id in
\* region_order, -1 when there is none
FoundIndex(order, current_id) ==
    LET hits == {i \in 1..Len(order) : order[i] = current_id}
    IN  IF hits = {} THEN -1
        ELSE (CHOOSE i \in hits : \A j \in hits : i <= j) - 1

\* A mutant of cycle_focus: the previously focused region is not cleared
\* (lines 773-775 missing).
CycleFocusNoClear(rs, order, current_id) ==
    IF order = <<>> THEN [regions |-> rs, focused_region_id |-> current_id]
    ELSE LET found_index == FoundIndex(order, current_id)
             next_id == IF found_index # -1
                        THEN order[((found_index + 1) % Len(order)) + 1]
                        ELSE order[1]
         IN  [regions |-> [rs EXCEPT ![next_id].is_focused = TRUE],
              focused_region_id |-> next_id]

\* A mutant of cycle_focus: the flag of the newly focused region is not set
\* (line 787 missing).
CycleFocusNoSet(rs, order, current_id) ==
    IF order = <<>> THEN [regions |-> rs, focused_region_id |-> current_id]
    ELSE LET cleared == IF current_id # NO_REGION /\ current_id \in DOMAIN rs
                        THEN [rs EXCEPT ![current_id].is_focused = FALSE]
                        ELSE rs
             found_index == FoundIndex(order, current_id)
             next_id == IF found_index # -1
                        THEN order[((found_index + 1) % Len(order)) + 1]
                        ELSE order[1]
         IN  [regions |-> cleared, focused_region_id |-> next_id]

\* cycle_focus(app_state): the regions and the focused id afterwards
cycle_focus(rs, order, current_id) ==
    IF order = <<>> THEN [regions |-> rs, focused_region_id |-> current_id]
    ELSE LET cleared == IF current_id # NO_REGION /\ current_id \in DOMAIN rs
                        THEN [rs EXCEPT ![current_id].is_focused = FALSE]
                        ELSE rs
             found_index == FoundIndex(order, current_id)
             next_id == IF found_index # -1
                        THEN order[((found_index + 1) % Len(order)) + 1]
                        ELSE order[1]
         IN  [regions |-> [cleared EXCEPT ![next_id].is_focused = TRUE],
              focused_region_id |-> next_id]

CycleFocus ==
    LET after == cycle_focus(regions, region_order, focused_region_id)
    IN  /\ regions' = after.regions
        /\ focused_region_id' = after.focused_region_id
        /\ last' = [op |-> "cycle_focus", regions |-> regions,
                    focused_region_id |-> focused_region_id]
        /\ UNCHANGED <<region_order, mode, input_buffer, command_buffer,
                       last_event_kind, last_event_mods, last_event_char>>
        /\ UNCHANGED <<termVars, gridVars, inputVars>>

MaxRegions == 3      \* regions of the application (3 in main)

RegionIds == 0..(MaxRegions - 1)

\* Every order of distinct region ids, the empty one included.
FocusOrders ==
    UNION {{order \in [1..n -> RegionIds] :
                \A i, j \in 1..n : i # j => order[i] # order[j]}
           : n \in 0..MaxRegions}

\* Any focus order over the regions, any focused id (none, a region in the
\* order, a region outside it), any focus flags.
InitFocus ==
    /\ \E flags \in [RegionIds -> BOOLEAN] :
          regions = [id \in RegionIds |->
                        [DEFAULT_REGION EXCEPT !.region_id = id,
                                               !.height = 1,
                                               !.lines = ContentLines(1),
                                               !.is_focused = flags[id]]]
    /\ region_order \in FocusOrders
    /\ focused_region_id \in RegionIds \cup {NO_REGION}
    /\ mode = MODE_NORMAL
    /\ input_buffer = <<>>
    /\ command_buffer = <<>>
    /\ last_event_kind = "none"
    /\ last_event_mods = 0
    /\ last_event_char = ""
    /\ IdleTerm /\ IdleGrid /\ IdleInput
    /\ last = [op |-> "init"]

NextFocus == CycleFocus

SpecFocus == InitFocus /\ [][NextFocus]_vars

\* The 1-based positions of id in order.
PositionsOf(order, id) == {i \in 1..Len(order) : order[i] = id}

\* C10: on a focus order of distinct ids with the focused id at index i,
\* cycle_focus moves focus to the id at index (i + 1) mod n, clears is_focused
\* on the previously focused region and sets it on the new one; with the
\* focused id not in the order (NO_REGION, say) focus goes to the first id;
\* on an empty order the application state is unchanged.
C10_CycleFocus ==
    last.op = "cycle_focus" =>
        LET n == Len(region_order)
            before == last.focused_region_id
            at == PositionsOf(region_order, before)
        IN  IF n = 0
            THEN /\ regions = last.regions
                 /\ focused_region_id = before
                 /\ mode = MODE_NORMAL
            ELSE /\ \A i \in at : focused_region_id = region_order[(i % n) + 1]
                 /\ at = {} => focused_region_id = region_order[1]
                 /\ regions[focused_region_id].is_focused
                 /\ (before \in DOMAIN regions /\ before # focused_region_id)
                        => ~regions[before].is_focused
                 /\ \A id \in DOMAIN regions :
                        /\ id \notin {before, focused_region_id}
                              => regions[id] = last.regions[id]
                        /\ [regions[id] EXCEPT !.is_focused = FALSE]
                              = [last.regions[id] EXCEPT !.is_focused = FALSE]

\* C10 witness: on an order of three regions the focus has wrapped from the
\* last id of the order to the first, and the flag moved with it.
C10_Witness ==
    /\ last.op = "cycle_focus"
    /\ Len(region_order) = 3
    /\ last.focused_region_id = region_order[3]
    /\ focused_region_id = region_order[1]
    /\ last.regions[last.focused_region_id].is_focused
    /\ ~regions[last.focused_region_id].is_focused
    /\ regions[focused_region_id].is_focused

(***************************************************************************)
(* render_region (tui.py 474-522).                                         *)
(*                                                                         *)
(* The state of one call is the cell list and whether an index outside     *)
(* the list was used (Python raises IndexError; an index in -len .. -1     *)
(* counts from the end of the list and does not raise).                    *)
(***************************************************************************)
\* current_cells[cell_index] = cell
SetItem(st, cell_index, cell) ==
    LET n == Len(st.cells)
    IN  IF 0 <= cell_index /\ cell_index < n
        THEN [st EXCEPT !.cells[cell_index + 1] = cell]
        ELSE IF -n <= cell_index /\ cell_index < 0
        THEN [st EXCEPT !.cells[n + cell_index + 1] = cell]
        ELSE [st EXCEPT !.raised = TRUE]

\* lines 502-505: the source line of a display row, '' when there is none
SourceLine(lines, source_line_index) ==
    IF source_line_index >= 0
    THEN IF source_line_index < Len(lines)
         THEN lines[source_line_index + 1]
         ELSE <<>>
    ELSE <<>>

\* lines 516-520: the character of a column, ' ' past the end of the line
SymbolAt(line, column) ==
    IF column < Len(line) THEN line[column + 1] ELSE " "

\* A mutant of the column clip: the break at the right edge of the grid
\* (lines 511-512) is missing.
PastRightEdgeNever(grid_col, width) == FALSE

\* line 511: grid_col >= grid_width
PastRightEdge(grid_col, width) == grid_col >= width

RECURSIVE RenderColumns(_, _, _, _, _, _, _)
\* lines 507-522: the columns of one display row, from `column`.
RenderColumns(region, grid_row, width, line, default_style, column, st) ==
    IF column >= region.width THEN st
    ELSE LET grid_col == region.left + column
         IN  IF grid_col < 0
             THEN RenderColumns(region, grid_row, width, line, default_style,
                                column + 1, st)
             ELSE IF PastRightEdge(grid_col, width) THEN st
             ELSE LET cell_index == grid_row * width + grid_col
                      cell == <<SymbolAt(line, column), default_style[1],
                                default_style[2], default_style[3]>>
                  IN  RenderColumns(region, grid_row, width, line,
                                    default_style, column + 1,
                                    SetItem(st, cell_index, cell))

RECURSIVE RenderRows(_, _, _, _, _, _)
\* lines 493-522: the display rows from `display_row`.
RenderRows(region, width, height, default_style, display_row, st) ==
    IF display_row >= region.height THEN st
    ELSE LET grid_row == region.top + display_row
         IN  IF grid_row < 0
             THEN RenderRows(region, width, height, default_style,
                             display_row + 1, st)
             ELSE IF grid_row >= height THEN st
             ELSE LET line == SourceLine(region.lines,
                                         display_row + region.scroll_offset)
                  IN  RenderRows(region, width, height, default_style,
                                 display_row + 1,
                                 RenderColumns(region, grid_row, width, line,
                                               default_style, 0, st))

\* render_region(region, current_cells, grid_width, default_style): the
\* cells afterwards and whether the call raised.
render_region(region, current_cells, width, default_style) ==
    RenderRows(region, width, Len(current_cells) \div width, default_style, 0,
               [cells |-> current_cells, raised |-> FALSE])

\* main line 847 and a second style
DefaultStyles == {<<COLOR_TAG_IDX + 15, COLOR_DEFAULT, 0>>,
                  <<color_a, color_b, MOD_BOLD>>}

\* main line 1003: render_region(region, grid['current'], grid_width, style)
RenderRegion ==
    \E id \in DOMAIN regions, default_style \in DefaultStyles :
        LET done == render_region(regions[id], current, grid_width,
                                  default_style)
        IN  /\ current' = done.cells
            /\ last' = [op |-> "render_region", id |-> id, before |-> current,
                        default_style |-> default_style,
                        raised |-> done.raised]
            /\ UNCHANGED <<grid_width, grid_height, previous, output,
                           style_cache>>
            /\ UNCHANGED <<termVars, inputVars, appVars>>

MaxSide == 2         \* grid width; the grid height goes one further

\* Content of a region: no line, one line, lines of different lengths with
\* an empty one among them.
RenderLines ==
    { <<>>,
      << <<"a", "b">> >>,
      << <<"c">>, <<>>, <<"d", "e", "f">> >> }

\* A grid of any bounded shape, blank (line 1000) or holding what an earlier
\* region wrote, and one region placed anywhere around it: above or left of
\* the grid, reaching past its right or bottom edge, of no or negative size,
\* scrolled before its first or past its last line.
InitRender ==
    /\ grid_width \in 1..MaxSide
    /\ grid_height \in 1..(MaxSide + 1)
    /\ \E fill \in {BLANK_CELL, cell_b} :
          current = [i \in 1..(grid_width * grid_height) |-> fill]
    /\ previous = [i \in 1..(grid_width * grid_height) |-> BLANK_CELL]
    /\ output = <<>>
    /\ style_cache = build_style_cache
    /\ \E top \in -1..grid_height, left \in -1..grid_width,
          width \in -1..(grid_width + 2), height \in -1..(grid_height + 1),
          lines \in RenderLines, off \in -1..3 :
          regions = (1 :> [DEFAULT_REGION EXCEPT !.region_id = 1,
                                                 !.name = "content",
                                                 !.top = top,
                                                 !.left = left,
                                                 !.width = width,
                                                 !.height = height,
                                                 !.lines = lines,
                                                 !.scroll_offset = off])
    /\ region_order = <<1>>
    /\ focused_region_id = NO_REGION
    /\ mode = MODE_NORMAL
    /\ input_buffer = <<>>
    /\ command_buffer = <<>>
    /\ last_event_kind = "none"
    /\ last_event_mods = 0
    /\ last_event_char = ""
    /\ IdleTerm /\ IdleInput
    /\ last = [op |-> "init"]

NextRender == RenderRegion

SpecRender == InitRender /\ [][NextRender]_vars

\* The cell the claim expects at grid position (row, col) after a render of
\* `region` over the cells `before`.
ExpectedCell(region, before, width, default_style, row, col) ==
    LET inside == /\ region.top <= row
                  /\ row <= region.top + region.height - 1
                  /\ region.left <= col
                  /\ col <= region.left + region.width - 1
        line_index == region.scroll_offset + row - region.top
        column == col - region.left
        exists == /\ 0 <= line_index
                  /\ line_index < Len(region.lines)
                  /\ column < Len(region.lines[line_index + 1])
    IN  IF inside
        THEN <<IF exists THEN region.lines[line_index + 1][column + 1]
                         ELSE " ",
               default_style[1], default_style[2], default_style[3]>>
        ELSE before[row * width + col + 1]

\* C11: render_region writes exactly the grid cells lying both inside the
\* region rectangle and inside the grid and leaves every other cell as it
\* was, for any top/left (negative included) and any width/height reaching
\* past the grid; a written cell holds the character at column col - left of
\* line scroll_offset + row - top, or a space when that line or column does
\* not exist, with the caller's default style; no index outside a list is
\* used.
C11_RenderClipsToGrid ==
    last.op = "render_region" =>
        /\ ~last.raised
        /\ Len(current) = Len(last.before)
        /\ \A row \in 0..(grid_height - 1), col \in 0..(grid_width - 1) :
              current[row * grid_width + col + 1]
                  = ExpectedCell(regions[last.id], last.before, grid_width,
                                 last.default_style, row, col)

\* C11 witness: a region starting left of the grid and reaching past its
\* right and bottom edges, scrolled so that one visible row shows a line
\* and another lies past the last line, over a grid with a row above the
\* region that keeps its cells.
C11_Witness ==
    /\ last.op = "render_region"
    /\ LET region == regions[last.id]
       IN  /\ region.left < 0
           /\ region.left + region.width > grid_width
           /\ region.top > 0
           /\ region.top + region.height > grid_height
           /\ \E row \in region.top..(grid_height - 1) :
                 region.scroll_offset + row - region.top >= Len(region.lines)
           /\ \E i \in 1..Len(current) : current[i][1] \notin {" ", "B"}
           /\ \E i \in 1..Len(current) : current[i] = cell_b
           /\ \E i \in 1..Len(current) :
                 current[i] = <<" ", last.default_style[1],
                                last.default_style[2], last.default_style[3]>>

(***************************************************************************)
(* row_has_changed on its own (tui.py 271-280): any two cell lists of the  *)
(* same length and any index range within them.                            *)
(***************************************************************************)
\* The blank cell and four cells that differ from it in one component each.
RowCells ==
    {BLANK_CELL,
     <<"x", COLOR_DEFAULT, COLOR_DEFAULT, 0>>,
     <<" ", color_a, COLOR_DEFAULT, 0>>,
     <<" ", COLOR_DEFAULT, color_a, 0>>,
     <<" ", COLOR_DEFAULT, COLOR_DEFAULT, MOD_BOLD>>}

MaxRowCells == 2     \* cells of the two lists compared

RowHasChanged ==
    \E row_start \in 0..Len(current), row_end \in 0..Len(current) :
        /\ last' = [op |-> "row_has_changed", row_start |-> row_start,
                    row_end |-> row_end,
                    result |-> row_has_changed(current, previous, row_start,
                                               row_end)]
        /\ UNCHANGED <<termVars, gridVars, inputVars, appVars>>

InitRow ==
    /\ grid_width \in 1..MaxRowCells
    /\ grid_height = 1
    /\ current \in [1..grid_width -> RowCells]
    /\ previous \in [1..grid_width -> RowCells]
    /\ output = <<>>
    /\ style_cache = build_style_cache
    /\ IdleTerm /\ IdleInput /\ IdleApp
    /\ last = [op |-> "init"]

NextRow == RowHasChanged

SpecRow == InitRow /\ [][NextRow]_vars

\* C12: row_has_changed(current, previous, row_start, row_end) returns False
\* if and only if current[i] equals previous[i] in symbol, foreground,
\* background and modifiers for every index i in [row_start, row_end).
C12_RowHasChanged ==
    last.op = "row_has_changed" =>
        (last.result = FALSE
            <=> \A i \in last.row_start..(last.row_end - 1) :
                    /\ current[i + 1][1] = previous[i + 1][1]
                    /\ current[i + 1][2] = previous[i + 1][2]
                    /\ current[i + 1][3] = previous[i + 1][3]
                    /\ current[i + 1][4] = previous[i + 1][4])

\* C12 witness: a range of two cells whose first cells are equal and whose
\* second cells differ in nothing but the modifiers is reported as changed.
C12_Witness ==
    /\ last.op = "row_has_changed"
    /\ last.row_start = 0
    /\ last.row_end = 2
    /\ current[1] = previous[1]
    /\ current[2][1] = previous[2][1]
    /\ current[2][2] = previous[2][2]
    /\ current[2][3] = previous[2][3]
    /\ current[2][4] # previous[2][4]
    /\ last.result = TRUE

(***************************************************************************)
(* get_style_bytes over one cache (tui.py 201-223): any sequence of calls  *)
(* over a bounded set of (fg, bg, modifiers) triples.  `last` carries, next *)
(* to the call, the bytes the first call for each triple returned.         *)
(***************************************************************************)
\* Triples that share colors but not modifiers, that swap foreground and
\* background, and that differ in bits no escape shows (index 271 and
\* index 15 have the same low byte).
StyleKeyList ==
    << <<COLOR_TAG_IDX + 15, COLOR_DEFAULT, 0>>,
       <<COLOR_TAG_IDX + 15, COLOR_DEFAULT, MOD_BOLD>>,
       <<COLOR_DEFAULT, COLOR_TAG_IDX + 15, 0>>,
       <<color_a, color_b, MOD_BOLD + MOD_BLINK>>,
       <<color_b, color_a, MOD_BOLD + MOD_BLINK>>,
       <<COLOR_TAG_IDX + 271, COLOR_DEFAULT, 0>>,
       <<COLOR_TAG_RGB + 66051, COLOR_DEFAULT, MOD_REVERSE>>,
       <<COLOR_DEFAULT, COLOR_DEFAULT, 0>> >>

MaxStyles == 6       \* distinct triples requested from one cache

StyleKeys == {StyleKeyList[i] : i \in 1..MaxStyles}

GetStyleBytes ==
    \E key \in StyleKeys :
        LET got == get_style_bytes(key[1], key[2], key[3], style_cache)
        IN  /\ style_cache' = got.cache
            /\ last' = [op |-> "get_style_bytes", key |-> key,
                        bytes |-> got.bytes,
                        seen_before |-> key \in DOMAIN last.first,
                        cache_before |-> style_cache,
                        first |-> IF key \in DOMAIN last.first
                                  THEN last.first
                                  ELSE last.first @@ (key :> got.bytes)]
            /\ UNCHANGED <<grid_width, grid_height, current, previous, output>>
            /\ UNCHANGED <<termVars, inputVars, appVars>>

\* main line 905: 'style_cache': build_style_cache()
InitStyle ==
    /\ grid_width = 0
    /\ grid_height = 0
    /\ current = <<>>
    /\ previous = <<>>
    /\ output = <<>>
    /\ style_cache = build_style_cache
    /\ IdleTerm /\ IdleInput /\ IdleApp
    /\ last = [op |-> "init", first |-> <<>>]

NextStyle == GetStyleBytes

SpecStyle == InitStyle /\ [][NextStyle]_vars

\* C13: get_style_bytes returns byte-identical output for every call with
\* the same (fg, bg, modifiers) triple, in any sequence of calls interleaved
\* with other triples, and that output is what an uncached build (modifier
\* escape, then foreground escape, then background escape) produces.
C13_CacheHitIsFresh ==
    last.op = "get_style_bytes" =>
        /\ last.bytes = last.first[last.key]
        /\ last.bytes = build_modifier_escape(last.key[3])
                            \o build_color_escape_fg(last.key[1])
                            \o build_color_escape_bg(last.key[2])

\* C13 witness: a repeated request answered from a cache that also holds
\* the same colors with other modifiers and the same colors swapped.
C13_Witness ==
    /\ last.op = "get_style_bytes"
    /\ last.seen_before
    /\ last.key = <<COLOR_TAG_IDX + 15, COLOR_DEFAULT, MOD_BOLD>>
    /\ <<COLOR_TAG_IDX + 15, COLOR_DEFAULT, 0>> \in DOMAIN last.cache_before
    /\ <<COLOR_DEFAULT, COLOR_TAG_IDX + 15, 0>> \in DOMAIN last.cache_before
    /\ last.bytes = <<27, 91, 48, 109, 27, 91, 49, 109,
                      27, 91, 51, 56, 59, 53, 59, 49, 53, 109,
                      27, 91, 52, 57, 109>>

\* C14: after any sequence of get_style_bytes calls the cache holds exactly
\* one entry per distinct triple requested so far, and a request for a
\* triple already seen adds or changes no entry.
C14_OneEntryPerTriple ==
    /\ DOMAIN style_cache = DOMAIN last.first
    /\ last.op = "get_style_bytes" =>
          /\ Cardinality(DOMAIN style_cache)
                = Cardinality(DOMAIN last.cache_before)
                    + (IF last.seen_before THEN 0 ELSE 1)
          /\ last.seen_before => style_cache = last.cache_before

\* C14 witness: every triple has been requested and the last request
\* repeated one of them.
C14_Witness ==
    /\ last.op = "get_style_bytes"
    /\ last.seen_before
    /\ DOMAIN style_cache = StyleKeys
    /\ Cardinality(DOMAIN style_cache) = MaxStyles

(***************************************************************************)
(* The escape builders on their own (tui.py 146-223): every modifier       *)
(* bitfield with colors of every kind, and every tag byte up to 127.       *)
(***************************************************************************)
\* Colors of the three kinds, with value bits above the ones an escape
\* shows, and colors whose tag byte is none of the three.
EscapeColors ==
    {COLOR_DEFAULT, 5,
     COLOR_TAG_IDX, COLOR_TAG_IDX + 15, COLOR_TAG_IDX + 255,
     COLOR_TAG_IDX + 65536 + 511,
     COLOR_TAG_RGB, COLOR_TAG_RGB + 66051, COLOR_TAG_RGB + 16777215,
     3 * 16777216 + 15, 127 * 16777216 + 66051}

\* Every tag byte a 32-bit signed integer can hold, with three values under
\* it.
TagColors ==
    {tag * 16777216 + value : tag \in 0..127, value \in {0, 15, 16777215}}

\* One style built from an empty cache, as on the first encounter of a
\* triple during a flush.
StyleFor ==
    /\ last.op = "style_args"
    /\ LET got == get_style_bytes(last.fg_color, last.bg_color,
                                  last.modifiers, build_style_cache)
       IN  /\ output' = got.bytes
           /\ style_cache' = got.cache
    /\ last' = [last EXCEPT !.op = "get_style_bytes"]
    /\ UNCHANGED <<grid_width, grid_height, current, previous>>
    /\ UNCHANGED <<termVars, inputVars, appVars>>

\* The two color builders on one color.
BuildColorEscapes ==
    /\ last.op = "color_args"
    /\ output' = build_color_escape_fg(last.color)
                    \o build_color_escape_bg(last.color)
    /\ last' = [op |-> "build_color_escape", color |-> last.color,
                fg |-> build_color_escape_fg(last.color),
                bg |-> build_color_escape_bg(last.color)]
    /\ UNCHANGED <<grid_width, grid_height, current, previous, style_cache>>
    /\ UNCHANGED <<termVars, inputVars, appVars>>

\* The arguments of one call: a style triple or a color.
InitEscape ==
    /\ IdleGrid
    /\ IdleTerm /\ IdleInput /\ IdleApp
    /\ \/ \E fg_color \in EscapeColors, bg_color \in EscapeColors,
             modifiers \in 0..255 :
             last = [op |-> "style_args", fg_color |-> fg_color,
                     bg_color |-> bg_color, modifiers |-> modifiers]
       \/ \E color \in TagColors :
             last = [op |-> "color_args", color |-> color]

NextEscape ==
    \/ StyleFor
    \/ BuildColorEscapes

SpecEscape == InitEscape /\ [][NextEscape]_vars

RECURSIVE DecimalBytes(_)
\* The ASCII decimal digits of n >= 0.
DecimalBytes(n) ==
    IF n < 10 THEN <<48 + n>>
    ELSE DecimalBytes(n \div 10) \o <<48 + (n % 10)>>

\* ESC [ n m
SgrOf(n) == <<27, 91>> \o DecimalBytes(n) \o <<109>>

\* The documented order: modifier bit, SGR code.
ModifierOrder ==
    << <<MOD_BOLD, 1>>, <<MOD_DIM, 2>>, <<MOD_ITALIC, 3>>,
       <<MOD_UNDERLINE, 4>>, <<MOD_BLINK, 5>>, <<MOD_REVERSE, 7>>,
       <<MOD_HIDDEN, 8>>, <<MOD_STRIKETHROUGH, 9>> >>

RECURSIVE ModifierEscapesFrom(_, _)
ModifierEscapesFrom(modifiers, k) ==
    IF k > Len(ModifierOrder) THEN <<>>
    ELSE (IF (modifiers \div ModifierOrder[k][1]) % 2 = 1
          THEN SgrOf(ModifierOrder[k][2]) ELSE <<>>)
             \o ModifierEscapesFrom(modifiers, k + 1)

\* The color escape the claim gives: base 30 for the foreground, 40 for the
\* background.
ColorEscapeOf(base, color) ==
    LET tag == color \div 16777216
        low == color % 256
    IN  IF tag = 1
        THEN <<27, 91>> \o DecimalBytes(base + 8) \o <<59, 53, 59>>
                 \o DecimalBytes(low) \o <<109>>
        ELSE IF tag = 2
        THEN <<27, 91>> \o DecimalBytes(base + 8) \o <<59, 50, 59>>
                 \o DecimalBytes((color \div 65536) % 256) \o <<59>>
                 \o DecimalBytes((color \div 256) % 256) \o <<59>>
                 \o DecimalBytes(low) \o <<109>>
        ELSE SgrOf(base + 9)

\* C15: the style sequence for (fg, bg, modifiers) is, in this order, the
\* reset ESC[0m; one escape per set modifier bit in the order bold(1),
\* dim(2), italic(3), underline(4), blink(5), reverse(7), hidden(8),
\* strikethrough(9) and none for an unset bit; the foreground escape; the
\* background escape.  A DEFAULT color gives 39/49, an INDEXED one
\* 38/48;5;n with n the low byte, an RGB one 38/48;2;r;g;b with r, g, b
\* the three low bytes.
C15_StyleSequence ==
    last.op = "get_style_bytes" =>
        output = SgrOf(0)
                    \o ModifierEscapesFrom(last.modifiers, 1)
                    \o ColorEscapeOf(30, last.fg_color)
                    \o ColorEscapeOf(40, last.bg_color)

\* C15 witness: blink, reverse and strikethrough with an RGB foreground and
\* an indexed background whose value has bits above the low byte.
C15_Witness ==
    /\ last.op = "get_style_bytes"
    /\ last.modifiers = MOD_BLINK + MOD_REVERSE + MOD_STRIKETHROUGH
    /\ last.fg_color = COLOR_TAG_RGB + 66051
    /\ last.bg_color = COLOR_TAG_IDX + 65536 + 511
    /\ output = <<27, 91, 48, 109, 27, 91, 53, 109, 27, 91, 55, 109,
                  27, 91, 57, 109,
                  27, 91, 51, 56, 59, 50, 59, 49, 59, 50, 59, 51, 109,
                  27, 91, 52, 56, 59, 53, 59, 50, 53, 53, 109>>

\* C16: for every 32-bit color whose tag byte is not DEFAULT, INDEXED or
\* RGB, the foreground and background builders return what they return for
\* COLOR_DEFAULT, ESC[39m and ESC[49m.
C16_UnknownTagIsDefault ==
    (/\ last.op = "build_color_escape"
     /\ last.color \div 16777216 \notin {0, 1, 2})
        => /\ last.fg = <<27, 91, 51, 57, 109>>
           /\ last.bg = <<27, 91, 52, 57, 109>>
           /\ last.fg = build_color_escape_fg(COLOR_DEFAULT)
           /\ last.bg = build_color_escape_bg(COLOR_DEFAULT)

\* C16 witness: tag byte 127 over a value with all bits set.
C16_Witness ==
    /\ last.op = "build_color_escape"
    /\ last.color = 2147483647
    /\ last.fg = <<27, 91, 51, 57, 109>>
    /\ last.bg = <<27, 91, 52, 57, 109>>

(***************************************************************************)
(* APPLICATION STATE AND EVENT LOOP (tui.py 754-765, 825-983)              *)
(*                                                                         *)
(* The dispatch of one event, lines 924-981 of main.  The application      *)
(* state is the record of mode, regions, region_order, focused_region_id   *)
(* and the two text buffers; tab_debug_log is the list object that is      *)
(* also the lines of region 2 (lines 877, 887, 912).                       *)
(***************************************************************************)
\* handle_input_submit(app_state)
handle_input_submit(app) ==
    [app EXCEPT !.input_buffer = <<>>, !.mode = MODE_NORMAL]

\* handle_command(command, app_state)
handle_command(command, app) ==
    [app EXCEPT !.command_buffer = <<>>, !.mode = MODE_NORMAL]

\* str(n)
StrInt(n) == IF n < 0 THEN <<"-">> \o Digits(-n) ELSE Digits(n)

\* str(flag)
StrBool(flag) == IF flag THEN <<"T", "r", "u", "e">> ELSE <<"F", "a", "l", "s", "e">>

RECURSIVE JoinComma(_)
\* ', '.join(items)
JoinComma(items) ==
    IF Len(items) = 0 THEN <<>>
    ELSE IF Len(items) = 1 THEN items[1]
    ELSE items[1] \o <<",", " ">> \o JoinComma(Tail(items))

\* lines 961-969: the f-string of one tab entry
TabEntry(before_id, after_id, order, rs) ==
    <<"t", "a", "b", ":", " ", "b", "e", "f", "o", "r", "e", "=">> \o StrInt(before_id)
        \o <<" ", "a", "f", "t", "e", "r", "=">> \o StrInt(after_id)
        \o <<" ", " ", "o", "r", "d", "e", "r", "=">> \o <<"[">>
        \o JoinComma([i \in 1..Len(order) |-> StrInt(order[i])]) \o <<"]">>
        \o <<" ", " ", "i", "s", "_", "f", "o", "c", "u", "s", "e", "d", "=">> \o <<"{">>
        \o JoinComma([i \in 1..Len(order) |->
                         StrInt(order[i]) \o <<":", " ">>
                             \o StrBool(rs[order[i]].is_focused)])
        \o <<"}">>

\* A mutant of the log append: region 2 is replaced by a fresh region that
\* holds the longer log.
AppendTabEntryFreshRegion(rs, tab_entry) ==
    [rs EXCEPT ![2] = [DEFAULT_REGION EXCEPT
                           !.lines = Append(rs[2].lines, tab_entry)]]

\* line 970: app_state['tab_debug_log'].append(tab_entry)
AppendTabEntry(rs, tab_entry) ==
    [rs EXCEPT ![2].lines = Append(@, tab_entry)]

\* line 934
IsQ(event) == event.kind = "char" /\ event.char = "q" /\ event.modifiers = 0

\* A mutant of the Ctrl+C test: the modifiers are not looked at.
IsCtrlCAnyModifiers(event) == event.kind = "char" /\ event.char = "c"

\* line 935
IsCtrlC(event) ==
    event.kind = "char" /\ event.char = "c" /\ event.modifiers = MOD_KEY_CTRL

\* A mutant of the scroll bindings: the region scrolled is the first of
\* region_order, whatever the focus.
ScrollFirstOfOrder(app, delta) ==
    [app EXCEPT !.regions[app.region_order[1]] = scroll_region(@, delta)]

\* lines 939-940 and the like: scroll the focused region, if there is one
ScrollFocused(app, delta) ==
    IF app.focused_region_id # NO_REGION
    THEN [app EXCEPT !.regions[app.focused_region_id] = scroll_region(@, delta)]
    ELSE app

\* lines 945-946, 948-949
PageFocused(app, direction) ==
    IF app.focused_region_id # NO_REGION
    THEN [app EXCEPT !.regions[app.focused_region_id] =
                         page_region(@, direction)]
    ELSE app

\* lines 958-970: Tab
TabPressed(app) ==
    LET after == cycle_focus(app.regions, app.region_order,
                             app.focused_region_id)
        tab_entry == TabEntry(app.focused_region_id, after.focused_region_id,
                              app.region_order, after.regions)
    IN  [app EXCEPT !.regions = AppendTabEntry(after.regions, tab_entry),
                    !.focused_region_id = after.focused_region_id]

\* A mutant of the dispatch: the bindings of NORMAL mode act in every mode.
DispatchInEveryMode(app, event) ==
    IF IsQ(event) \/ IsCtrlC(event) THEN [app EXCEPT !.mode = MODE_QUITTING]
    ELSE IF event.kind = "arrow_up" /\ event.modifiers = 0
    THEN ScrollFocused(app, -1)
    ELSE IF event.kind = "arrow_down" /\ event.modifiers = 0
    THEN ScrollFocused(app, 1)
    ELSE IF event.kind = "char" /\ event.char = "i"
                                /\ event.modifiers = MOD_KEY_CTRL
    THEN TabPressed(app)
    ELSE IF event.kind = "char" /\ event.char = "/" /\ event.modifiers = 0
    THEN [app EXCEPT !.mode = MODE_COMMAND]
    ELSE app

\* lines 933-980: what one event does to the application state
Dispatch(app, event) ==
    IF app.mode = MODE_NORMAL
    THEN IF IsQ(event) \/ IsCtrlC(event)
         THEN [app EXCEPT !.mode = MODE_QUITTING]
         ELSE IF event.kind = "arrow_up" /\ event.modifiers = 0
         THEN ScrollFocused(app, -1)
         ELSE IF event.kind = "arrow_down" /\ event.modifiers = 0
         THEN ScrollFocused(app, 1)
         ELSE IF event.kind = "page_up" /\ event.modifiers = 0
         THEN PageFocused(app, -1)
         ELSE IF event.kind = "page_down" /\ event.modifiers = 0
         THEN PageFocused(app, 1)
         ELSE IF event.kind = "home" /\ event.modifiers = 0
         THEN ScrollFocused(app, -50000)
         ELSE IF event.kind = "end" /\ event.modifiers = 0
         THEN ScrollFocused(app, 50000)
         ELSE IF /\ event.kind = "char"
                 /\ event.char = "i"
                 /\ event.modifiers = MOD_KEY_CTRL
         THEN TabPressed(app)
         ELSE IF /\ event.kind = "char"
                 /\ event.char = "/"
                 /\ event.modifiers = 0
         THEN [app EXCEPT !.mode = MODE_COMMAND]
         ELSE app
    ELSE app

\* ESC [ text
Csi(text) == <<ESC>> \o Encode(<<"[">> \o text)

\* The bytes of one key press: the bound keys, the same characters with
\* Ctrl, the same special keys with a modifier, and unbound keys.
AppKeys ==
    {<<Ord("q")>>, <<Ord("c")>>, <<Ord("/")>>, <<Ord("i")>>, <<Ord("x")>>,
     <<3>>, <<9>>, <<13>>, <<17>>, <<127>>, <<ESC>>,
     Csi(<<"A">>), Csi(<<"B">>), Csi(<<"C">>), Csi(<<"5", "~">>),
     Csi(<<"6", "~">>), Csi(<<"H">>), Csi(<<"F">>),
     CsiModified(2, Ord("A")), CsiModified(5, Ord("B")),
     CsiModified(3, Ord("H")), Csi(<<"5", ";", "2", "~">>)}

\* The event write_events_to_ring pushes for the bytes of one key.
EventOf(raw) == write_events_to_ring(raw, EmptyRing, 0).pushed[1]

MaxTabs == 2         \* entries appended to the tab debug log

\* Lines 924-981 for one event of the ring.  The tab log grows with every
\* Tab: the key is offered while the log has room.
DispatchEvent ==
    \E raw \in AppKeys :
        LET event == EventOf(raw)
            app == [mode |-> mode, regions |-> regions,
                    region_order |-> region_order,
                    focused_region_id |-> focused_region_id,
                    input_buffer |-> input_buffer,
                    command_buffer |-> command_buffer]
            after == Dispatch(app, event)
        IN  /\ raw = <<9>> => Len(regions[2].lines) <= MaxTabs
            /\ mode' = after.mode
            /\ regions' = after.regions
            /\ region_order' = after.region_order
            /\ focused_region_id' = after.focused_region_id
            /\ input_buffer' = after.input_buffer
            /\ command_buffer' = after.command_buffer
            /\ last_event_kind' = event.kind
            /\ last_event_mods' = event.modifiers
            /\ last_event_char' = event.char
            /\ last' = [op |-> "dispatch", raw |-> raw, event |-> event,
                        before |-> app]
            /\ UNCHANGED <<termVars, gridVars, inputVars>>

\* main lines 838-913 for a terminal of `columns` x `rows`; 50 content
\* lines in the program, MaxLines here.
MainRegions(columns, rows) ==
    (0 :> [DEFAULT_REGION EXCEPT !.region_id = 0, !.name = "header",
                                 !.top = 0, !.left = 0, !.width = columns,
                                 !.height = 1,
                                 !.lines = <<<<"[", " ", "T", "U", "I", " ", "]">>>>,
                                 !.is_focused = FALSE])
    @@ (1 :> [DEFAULT_REGION EXCEPT !.region_id = 1, !.name = "content",
                                    !.top = 1, !.left = 0, !.width = columns,
                                    !.height = rows - 1 - 4,
                                    !.lines = ContentLines(MaxLines),
                                    !.is_focused = TRUE])
    @@ (2 :> [DEFAULT_REGION EXCEPT !.region_id = 2, !.name = "tab_debug",
                                    !.top = rows - 4, !.left = 0,
                                    !.width = columns, !.height = 4,
                                    !.lines = <<<<"t", "a", "b", " ", "d", "e", "b", "u", "g", ":", " ", "w", "a", "i", "t", "i", "n", "g", ".", ".", ".">>>>,
                                    !.is_focused = FALSE])

\* The application state main builds, for terminals of 4 rows and more.
InitApp ==
    /\ \E rows \in 4..(5 + MaxHeight) : regions = MainRegions(80, rows)
    /\ region_order = <<0, 1, 2>>
    /\ focused_region_id = 1
    /\ mode = MODE_NORMAL
    /\ input_buffer = <<>>
    /\ command_buffer = <<>>
    /\ last_event_kind = "none"
    /\ last_event_mods = 0
    /\ last_event_char = ""
    /\ IdleTerm /\ IdleGrid /\ IdleInput
    /\ last = [op |-> "init"]

NextApp == DispatchEvent

SpecApp == InitApp /\ [][NextApp]_vars

\* C17: in COMMAND mode (and likewise INPUT mode) an Enter event is routed
\* to the mode's submit handler, which clears the mode's text buffer and
\* returns the mode to NORMAL.
C17_EnterSubmits ==
    (/\ last.op = "dispatch"
     /\ last.event.kind = "enter"
     /\ last.before.mode \in {"COMMAND", "INPUT"})
        => /\ mode = "NORMAL"
           /\ last.before.mode = "COMMAND" => command_buffer = <<>>
           /\ last.before.mode = "INPUT" => input_buffer = <<>>

\* C18: in NORMAL mode a char event 'q' with no modifiers or a char event
\* 'c' with exactly the Ctrl modifier sets the mode to QUITTING, a char
\* event '/' with no modifiers sets it to COMMAND, and every other event,
\* the same keys with other modifiers included, leaves it NORMAL.
C18_NormalModeBindings ==
    (last.op = "dispatch" /\ last.before.mode = "NORMAL") =>
        LET event == last.event
            quits == /\ event.kind = "char"
                     /\ \/ event.char = "q" /\ event.modifiers = 0
                        \/ event.char = "c" /\ event.modifiers = 2
            commands == /\ event.kind = "char"
                        /\ event.char = "/"
                        /\ event.modifiers = 0
        IN  mode = IF quits THEN "QUITTING"
                   ELSE IF commands THEN "COMMAND"
                   ELSE "NORMAL"

\* C18 witness: Ctrl+Q, the quit character with a modifier, is dispatched in
\* NORMAL mode and the mode stays NORMAL.
C18_Witness ==
    /\ last.op = "dispatch"
    /\ last.before.mode = "NORMAL"
    /\ last.event.kind = "char"
    /\ last.event.char = "q"
    /\ last.event.modifiers = 2
    /\ mode = "NORMAL"

\* The fields of a region other than lines, scroll_offset and is_focused.
LayoutOf(region) ==
    <<region.region_id, region.name, region.top, region.left, region.width,
      region.height>>

\* C19, as stated: once a region is created no operation of the engine
\* changes a field of it other than lines and scroll_offset: region_id,
\* name, top, left, width, height and is_focused keep their values across
\* every sequence of input events.
C19_OnlyLinesAndScrollChange ==
    [][\A id \in DOMAIN regions :
          /\ LayoutOf(regions'[id]) = LayoutOf(regions[id])
          /\ regions'[id].is_focused = regions[id].is_focused]_vars

\* C19, amended: once a region is created no operation of the engine
\* changes a field of it other than lines, scroll_offset and is_focused:
\* region_id, name, top, left, width and height keep their values across
\* every sequence of input events, and no region is added or removed.
C19_LayoutNeverChanges ==
    [][/\ DOMAIN regions' = DOMAIN regions
       /\ \A id \in DOMAIN regions :
             LayoutOf(regions'[id]) = LayoutOf(regions[id])]_vars

\* C19 witness: after scrolling and two Tabs the content region has moved
\* its offset and lost the focus, the log region has gained lines and the
\* focus, and both have the layout main gave them for 7 rows.
C19_Witness ==
    /\ regions[1].scroll_offset > 0
    /\ ~regions[1].is_focused
    /\ Len(regions[2].lines) = 3
    /\ LayoutOf(regions[1]) = <<1, "content", 1, 0, 80, 2>>
    /\ LayoutOf(regions[2]) = <<2, "tab_debug", 3, 0, 80, 4>>
    /\ focused_region_id = 0
    /\ regions[0].is_focused

(***************************************************************************)
(* SpecArrow: the events dispatched on the application state main builds   *)
(* and on the same state with no region focused (focused_region_id         *)
(* NO_REGION, the case lines 939-954 and 988 test for).                    *)
(***************************************************************************)
InitUnfocused ==
    /\ \E rows \in 4..(5 + MaxHeight) :
          regions = [MainRegions(80, rows) EXCEPT ![1].is_focused = FALSE]
    /\ region_order = <<0, 1, 2>>
    /\ focused_region_id = NO_REGION
    /\ mode = MODE_NORMAL
    /\ input_buffer = <<>>
    /\ command_buffer = <<>>
    /\ last_event_kind = "none"
    /\ last_event_mods = 0
    /\ last_event_char = ""
    /\ IdleTerm /\ IdleGrid /\ IdleInput
    /\ last = [op |-> "init"]

NextArrow == DispatchEvent

SpecArrow == (InitApp \/ InitUnfocused) /\ [][NextArrow]_vars

\* scroll_offset moved by `step` and kept in [0, max(0, len(lines) - height)]
MovedOffset(region, step) ==
    LET max_offset == Max(0, Len(region.lines) - region.height)
        moved == region.scroll_offset + step
    IN  IF moved < 0 THEN 0 ELSE IF moved > max_offset THEN max_offset ELSE moved

\* C33: in NORMAL mode an arrow_up / arrow_down event with no modifiers
\* changes the focused region's scroll_offset by -1 / +1 (clamped) and
\* changes nothing else: no other region's scroll_offset, no focus state and
\* no mode; with focused_region_id equal to NO_REGION, or with any modifier
\* bit set, the event changes no region at all.
C33_ArrowScrollsFocusedOnly ==
    (/\ last.op = "dispatch"
     /\ last.before.mode = "NORMAL"
     /\ last.event.kind \in {"arrow_up", "arrow_down"})
        => LET before == last.before
               focus == before.focused_region_id
               step == IF last.event.kind = "arrow_up" THEN -1 ELSE 1
           IN  /\ mode = "NORMAL"
               /\ focused_region_id = focus
               /\ region_order = before.region_order
               /\ input_buffer = before.input_buffer
               /\ command_buffer = before.command_buffer
               /\ DOMAIN regions = DOMAIN before.regions
               /\ IF last.event.modifiers = 0 /\ focus # -1
                  THEN /\ regions[focus] =
                            [before.regions[focus] EXCEPT
                               !.scroll_offset = MovedOffset(before.regions[focus], step)]
                       /\ \A id \in DOMAIN regions \ {focus} :
                             regions[id] = before.regions[id]
                  ELSE regions = before.regions

\* C33 witness: an arrow down with no modifiers on the focused content
\* region moved its offset from 1 to 2 and left the header and the log, the
\* focus and the mode as they were.
C33_Witness ==
    /\ last.op = "dispatch"
    /\ last.before.mode = "NORMAL"
    /\ last.event.kind = "arrow_down"
    /\ last.event.modifiers = 0
    /\ last.before.focused_region_id = 1
    /\ last.before.regions[1].scroll_offset = 1
    /\ regions[1].scroll_offset = 2
    /\ regions[0] = last.before.regions[0]
    /\ regions[2] = last.before.regions[2]
    /\ focused_region_id = 1

(***************************************************************************)
(* flush_full (tui.py 226-269) and SpecFrame: one flush_diff or flush_full *)
(* call on a grid whose cells share glyphs and styles.                     *)
(***************************************************************************)
\* A mutant of the full flush: the style is written before every cell.
FullCellAlwaysStyled(cell, st) ==
    LET got == get_style_bytes(cell[2], cell[3], cell[4], st.cache)
    IN  [out |-> st.out \o got.bytes \o Encode(<<cell[1]>>),
         register |-> <<cell[2], cell[3], cell[4]>>,
         cache |-> got.cache]

\* flush_full lines 245-265: one cell is written.
FullCell(cell, st) ==
    LET style == <<cell[2], cell[3], cell[4]>>
        style_changed == style # st.register
        got == get_style_bytes(cell[2], cell[3], cell[4], st.cache)
    IN  [out |-> st.out \o (IF style_changed THEN got.bytes ELSE <<>>)
                    \o Encode(<<cell[1]>>),
         register |-> IF style_changed THEN style ELSE st.register,
         cache |-> IF style_changed THEN got.cache ELSE st.cache]

RECURSIVE FullColumns(_, _, _, _, _)
\* flush_full lines 244-265: the columns of one row, from `column`.
FullColumns(current_cells, width, row, column, st) ==
    IF column >= width THEN st
    ELSE FullColumns(current_cells, width, row, column + 1,
                     FullCell(current_cells[row * width + column + 1], st))

RECURSIVE FullRows(_, _, _, _, _)
\* flush_full lines 240-265: the rows from `row`, each after its position.
FullRows(current_cells, width, height, row, st) ==
    IF row >= height THEN st
    ELSE FullRows(current_cells, width, height, row + 1,
                  FullColumns(current_cells, width, row, 0,
                              [st EXCEPT !.out = @ \o CursorPosition(row + 1, 1)]))

\* flush_full(current_cells, width, height, style_cache): the bytes of its
\* one os.write (lines 267-269) and the cache afterwards.
flush_full(current_cells, width, height, cache) ==
    LET st == FullRows(current_cells, width, height, 0,
                       [out |-> <<>>, register |-> <<-1, -1, -1>>,
                        cache |-> cache])
    IN  [bytes |-> st.out \o SGR_RESET, cache |-> st.cache]

FlushFull ==
    /\ LET done == flush_full(current, grid_width, grid_height, style_cache)
       IN  /\ output' = done.bytes
           /\ style_cache' = done.cache
    /\ last' = [op |-> "flush_full", current |-> current, previous |-> previous]
    /\ UNCHANGED <<grid_width, grid_height, current, previous>>
    /\ UNCHANGED <<termVars, inputVars, appVars>>

\* Cells that share a glyph or a style with another: the blank cell, the
\* first cell of test_diff, and a space in that cell's style.
cell_space_a == <<" ", color_a, COLOR_DEFAULT, MOD_BOLD>>
FrameCells == {BLANK_CELL, cell_a, cell_space_a}

MaxFrameCells == 3   \* cells of a grid: every width x height up to this many

FrameShapes ==
    {wh \in (1..MaxFrameCells) \X (1..MaxFrameCells) :
        wh[1] * wh[2] <= MaxFrameCells}

InitFrame ==
    /\ \E wh \in FrameShapes :
          /\ grid_width = wh[1]
          /\ grid_height = wh[2]
    /\ current \in [1..(grid_width * grid_height) -> FrameCells]
    /\ previous \in [1..(grid_width * grid_height) -> FrameCells]
    /\ output = <<>>
    /\ style_cache = build_style_cache
    /\ IdleTerm /\ IdleInput /\ IdleApp
    /\ last = [op |-> "init"]

NextFrame == FlushDiff \/ FlushFull

SpecFrame == InitFrame /\ [][NextFrame]_vars

(***************************************************************************)
(* Claims about the bytes of a frame.  A terminal model reads them: the    *)
(* escapes and glyphs of the stream, a cursor that moves one column per    *)
(* glyph, and a current style that every SGR escape changes.               *)
(***************************************************************************)
RECURSIVE Tokens(_, _)
\* The escapes and glyphs of a byte string from the 0-based `index` on:
\* ESC [ <parameters> <final> is one token, any other byte one glyph.
Tokens(bytes, index) ==
    IF index >= Len(bytes) THEN <<>>
    ELSE IF bytes[index + 1] = ESC /\ index + 2 <= Len(bytes)
                                  /\ bytes[index + 2] = Ord("[")
                                  /\ ParamEnd(bytes, index + 2) < Len(bytes)
    THEN LET stop == ParamEnd(bytes, index + 2)
             final == bytes[stop + 1]
         IN  <<[t |-> IF final = Ord("H") THEN "position"
                      ELSE IF final = Ord("m") THEN "sgr" ELSE "other",
                params |-> Slice(bytes, index + 2, stop)]>>
                 \o Tokens(bytes, stop + 1)
    ELSE <<[t |-> "glyph", params |-> <<bytes[index + 1]>>]>>
             \o Tokens(bytes, index + 1)

\* The decimal fields of an escape's parameters.
Fields(params) ==
    IF params = <<>> THEN <<>>
    ELSE LET texts == SplitOn(params, Ord(";"))
         IN  [k \in 1..Len(texts) |-> DecimalValue(texts[k])]

TerminalDefaultStyle == [fg |-> <<"default">>, bg |-> <<"default">>, attrs |-> {}]

\* What a terminal shows for a color value of the engine.
ColorMeaning(color) ==
    LET tag == color \div 16777216
        value == color % 16777216
    IN  IF tag = 1 THEN <<"indexed", value % 256>>
        ELSE IF tag = 2
        THEN <<"rgb", (value \div 65536) % 256, (value \div 256) % 256,
               value % 256>>
        ELSE <<"default">>

\* What a terminal shows for a cell: its glyph and the meaning of its style.
CellMeaning(cell) ==
    [glyph |-> cell[1],
     style |-> [fg |-> ColorMeaning(cell[2]), bg |-> ColorMeaning(cell[3]),
                attrs |-> {ModifierOrder[k][2] :
                              k \in {j \in 1..Len(ModifierOrder) :
                                         (cell[4] \div ModifierOrder[j][1]) % 2 = 1}}]]

DisplayOf(cells) == [i \in 1..Len(cells) |-> CellMeaning(cells[i])]

\* The current style after one SGR escape.
ApplySgr(style, fields) ==
    IF fields = <<0>> THEN TerminalDefaultStyle
    ELSE IF Len(fields) = 1 /\ fields[1] \in {1, 2, 3, 4, 5, 7, 8, 9}
    THEN [style EXCEPT !.attrs = @ \cup {fields[1]}]
    ELSE IF fields = <<39>> THEN [style EXCEPT !.fg = <<"default">>]
    ELSE IF fields = <<49>> THEN [style EXCEPT !.bg = <<"default">>]
    ELSE IF Len(fields) = 3 /\ fields[1] = 38 /\ fields[2] = 5
    THEN [style EXCEPT !.fg = <<"indexed", fields[3]>>]
    ELSE IF Len(fields) = 3 /\ fields[1] = 48 /\ fields[2] = 5
    THEN [style EXCEPT !.bg = <<"indexed", fields[3]>>]
    ELSE IF Len(fields) = 5 /\ fields[1] = 38 /\ fields[2] = 2
    THEN [style EXCEPT !.fg = <<"rgb", fields[3], fields[4], fields[5]>>]
    ELSE IF Len(fields) = 5 /\ fields[1] = 48 /\ fields[2] = 2
    THEN [style EXCEPT !.bg = <<"rgb", fields[3], fields[4], fields[5]>>]
    ELSE style

\* The terminal after one token: a position escape moves the cursor (1-based
\* row and column), an SGR escape changes the style, a glyph is shown at the
\* cursor in the current style and the cursor moves one column right.  A
\* glyph outside the grid is not shown.
ApplyToken(term, token, width, height) ==
    IF token.t = "position"
    THEN LET fields == Fields(token.params)
         IN  [term EXCEPT !.row = fields[1] - 1, !.column = fields[2] - 1]
    ELSE IF token.t = "sgr"
    THEN [term EXCEPT !.style = ApplySgr(term.style, Fields(token.params))]
    ELSE IF token.t = "glyph"
    THEN IF term.row \in 0..(height - 1) /\ term.column \in 0..(width - 1)
         THEN [term EXCEPT
                  !.display[term.row * width + term.column + 1] =
                      [glyph |-> Chr(token.params[1]), style |-> term.style],
                  !.column = @ + 1]
         ELSE [term EXCEPT !.column = @ + 1]
    ELSE term

RECURSIVE ApplyTokens(_, _, _, _, _)
ApplyTokens(term, tokens, k, width, height) ==
    IF k > Len(tokens) THEN term
    ELSE ApplyTokens(ApplyToken(term, tokens[k], width, height), tokens,
                     k + 1, width, height)

\* Where the cursor and the style of a terminal may be before a frame.
TerminalStarts(width, height) ==
    {[row |-> 0, column |-> 0, style |-> TerminalDefaultStyle],
     [row |-> height - 1, column |-> width - 1,
      style |-> [fg |-> <<"indexed", 12>>, bg |-> <<"rgb", 1, 2, 3>>,
                 attrs |-> {1, 4}]]}

\* A terminal that shows `cells`, with its cursor and style as in `start`,
\* after it has read `bytes`.
TerminalAfter(cells, start, bytes, width, height) ==
    ApplyTokens([display |-> DisplayOf(cells), row |-> start.row,
                 column |-> start.column, style |-> start.style],
                Tokens(bytes, 0), 1, width, height)

\* C24: a terminal whose display equals previous shows, after reading the
\* bytes written by flush_diff, current in every cell, glyph and style,
\* wherever its cursor was and whatever its style was, and is left in the
\* default style.
C24_DiffRefinesDisplay ==
    last.op = "flush_diff" =>
        \A start \in TerminalStarts(grid_width, grid_height) :
            LET term == TerminalAfter(last.previous, start, output,
                                      grid_width, grid_height)
            IN  /\ term.display = DisplayOf(last.current)
                /\ term.style = TerminalDefaultStyle

\* C24 witness: a row of three cells was flushed in which the middle cell
\* kept its glyph and style, the first changed only its style and the last
\* only its glyph.
C24_Witness ==
    /\ last.op = "flush_diff"
    /\ grid_width = 3
    /\ last.previous = <<BLANK_CELL, cell_a, cell_a>>
    /\ last.current = <<cell_space_a, cell_a, cell_space_a>>
    /\ \A start \in TerminalStarts(3, 1) :
          /\ TerminalAfter(last.previous, start, output, 3, 1).display[3].glyph = " "
          /\ TerminalAfter(last.previous, start, output, 3, 1).display[1].style.attrs = {1}
          /\ TerminalAfter(last.previous, start, output, 3, 1).display[2]
                = CellMeaning(cell_a)

RECURSIVE ChangedFrom(_, _, _)
\* The 1-based indexes from `index` on of the cells that differ between the
\* two buffers, in row-major order.
ChangedFrom(current_cells, previous_cells, index) ==
    IF index > Len(current_cells) THEN <<>>
    ELSE (IF current_cells[index] # previous_cells[index] THEN <<index>>
          ELSE <<>>)
             \o ChangedFrom(current_cells, previous_cells, index + 1)

\* The position escape of the 1-based row and column, as a token.
PositionToken(row, column) ==
    [t |-> "position",
     params |-> DecimalBytes(row) \o <<Ord(";")>> \o DecimalBytes(column)]

GlyphToken(symbol) == [t |-> "glyph", params |-> <<Ord(symbol)>>]

RECURSIVE PositionsAndGlyphs(_, _, _, _, _)
\* What C25 says flush_diff writes apart from style escapes: for each changed
\* cell from the k-th on, its position when it is in column 0 or the cell to
\* its left is unchanged, then its glyph.
PositionsAndGlyphs(current_cells, previous_cells, width, changed, k) ==
    IF k > Len(changed) THEN <<>>
    ELSE LET index == changed[k] - 1
             row == index \div width
             column == index % width
             left_changed == /\ column > 0
                             /\ current_cells[index] # previous_cells[index]
         IN  (IF left_changed THEN <<>>
              ELSE <<PositionToken(row + 1, column + 1)>>)
                 \o <<GlyphToken(current_cells[index + 1][1])>>
                 \o PositionsAndGlyphs(current_cells, previous_cells, width,
                                       changed, k + 1)

IsNoSgr(token) == token.t # "sgr"

\* C25: apart from style escapes, flush_diff writes nothing for a row without
\* a changed cell and nothing for an unchanged cell; in a changed row it
\* writes the glyph of each changed cell, preceded by the position escape of
\* its 1-based row and column exactly when it is the first changed cell of
\* the row or the cell to its left is unchanged.
C25_PositionOnlyAfterGap ==
    last.op = "flush_diff" =>
        SelectSeq(Tokens(output, 0), IsNoSgr)
            = PositionsAndGlyphs(last.current, last.previous, grid_width,
                                 ChangedFrom(last.current, last.previous, 1), 1)

\* C25 witness: in a row of three cells the first two changed and were
\* written after one position escape, the third did not change and was not
\* written.
C25_Witness ==
    /\ last.op = "flush_diff"
    /\ grid_width = 3
    /\ last.previous = <<BLANK_CELL, BLANK_CELL, cell_a>>
    /\ last.current = <<cell_a, cell_a, cell_a>>
    /\ SelectSeq(Tokens(output, 0), IsNoSgr)
          = <<PositionToken(1, 1), GlyphToken("A"), GlyphToken("A")>>

\* The indexes of the glyph tokens of a token sequence, in order.
GlyphIndexes(tokens) ==
    LET RECURSIVE From(_)
        From(j) == IF j > Len(tokens) THEN <<>>
                   ELSE (IF tokens[j].t = "glyph" THEN <<j>> ELSE <<>>)
                            \o From(j + 1)
    IN  From(1)

StyleOfCell(cell) == <<cell[2], cell[3], cell[4]>>

\* C26: in the bytes of one flush_diff call a style escape stands before the
\* glyph of a written cell exactly when the cell is the first one written or
\* its style differs from the style of the cell written before it, in
\* whichever row that was; the bytes end with ESC [ 0 m.
C26_StyleRegisterPersists ==
    last.op = "flush_diff" =>
        LET tokens == Tokens(output, 0)
            glyphs == GlyphIndexes(tokens)
            changed == ChangedFrom(last.current, last.previous, 1)
        IN  /\ Len(glyphs) = Len(changed)
            /\ \A k \in 1..Len(glyphs) :
                  (glyphs[k] > 1 /\ tokens[glyphs[k] - 1].t = "sgr")
                      <=> (\/ k = 1
                           \/ StyleOfCell(last.current[changed[k]])
                                 # StyleOfCell(last.current[changed[k - 1]]))
            /\ Len(output) >= 4
            /\ SubSeq(output, Len(output) - 3, Len(output)) = <<27, 91, 48, 109>>
            /\ tokens[Len(tokens)] = [t |-> "sgr", params |-> <<48>>]
            /\ Len(tokens) > 1 => tokens[Len(tokens) - 1].t = "glyph"

\* C26 witness: two rows of one cell were both written and the second cell,
\* in the style of the first, got no style escape.
C26_Witness ==
    /\ last.op = "flush_diff"
    /\ grid_width = 1
    /\ last.previous = <<BLANK_CELL, BLANK_CELL>>
    /\ last.current = <<cell_a, cell_space_a>>
    /\ LET tokens == Tokens(output, 0)
       IN  /\ tokens[Len(tokens) - 1] = GlyphToken(" ")
           /\ tokens[Len(tokens) - 2] = PositionToken(2, 1)
           /\ tokens[Len(tokens) - 3] = GlyphToken("A")
           /\ tokens[Len(tokens) - 4].t = "sgr"

RECURSIVE RowsOfGlyphs(_, _, _, _)
\* What C27 says flush_full writes apart from style escapes: for each row
\* from `row` on, the position of its first column, then the glyph of every
\* cell of the row from left to right.
RowsOfGlyphs(current_cells, width, height, row) ==
    IF row >= height THEN <<>>
    ELSE <<PositionToken(row + 1, 1)>>
             \o [column \in 1..width |->
                    GlyphToken(current_cells[row * width + column][1])]
             \o RowsOfGlyphs(current_cells, width, height, row + 1)

\* C27: the bytes of flush_full are, for every row in order, the position
\* escape of (row + 1, 1) and the glyphs of all its cells from left to right,
\* with a style escape before a glyph exactly when the cell is the first of
\* the frame or its style differs from the style of the cell before it, and
\* ESC [ 0 m at the end; a terminal that reads them shows current whatever
\* it showed before.
C27_FullFrameStream ==
    last.op = "flush_full" =>
        LET tokens == Tokens(output, 0)
            glyphs == GlyphIndexes(tokens)
        IN  /\ SelectSeq(tokens, IsNoSgr)
                  = RowsOfGlyphs(last.current, grid_width, grid_height, 0)
            /\ Len(glyphs) = Len(last.current)
            /\ \A k \in 1..Len(glyphs) :
                  tokens[glyphs[k] - 1].t = "sgr"
                      <=> (\/ k = 1
                           \/ StyleOfCell(last.current[k])
                                 # StyleOfCell(last.current[k - 1]))
            /\ SubSeq(output, Len(output) - 3, Len(output)) = <<27, 91, 48, 109>>
            /\ tokens[Len(tokens) - 1].t = "glyph"
            /\ \A start \in TerminalStarts(grid_width, grid_height) :
                  TerminalAfter(last.previous, start, output, grid_width,
                                grid_height).display = DisplayOf(last.current)
            /\ previous = last.previous

\* C27 witness: two rows of one cell in the same style were written in full,
\* each after its position escape, the second without a style escape.
C27_Witness ==
    /\ last.op = "flush_full"
    /\ grid_width = 1
    /\ last.current = <<cell_a, cell_space_a>>
    /\ LET tokens == Tokens(output, 0)
       IN  /\ tokens[1] = PositionToken(1, 1)
           /\ tokens[2].t = "sgr"
           /\ tokens[Len(tokens) - 3] = GlyphToken("A")
           /\ tokens[Len(tokens) - 2] = PositionToken(2, 1)
           /\ tokens[Len(tokens) - 1] = GlyphToken(" ")
           /\ tokens[Len(tokens)] = [t |-> "sgr", params |-> <<48>>]

(***************************************************************************)
(* SpecLoop: the main loop (tui.py 916-1010) from the first poll on, one   *)
(* step per part of an iteration: the poll and read, each event of the     *)
(* drain, the test for QUITTING, and the render pass.  The frame of main   *)
(* holds the part that runs next.                                          *)
(***************************************************************************)
LoopColumns == 2     \* terminal['width']
LoopRows == 6        \* terminal['height']
MaxPolls == 2        \* polls that find bytes to read

\* The bytes of one key: q, /, Tab and arrow down.
LoopKeys == {<<Ord("q")>>, <<Ord("/")>>, <<9>>, Csi(<<"B">>)}

RECURSIVE Repeated(_, _)
Repeated(bytes, n) == IF n = 0 THEN <<>> ELSE bytes \o Repeated(bytes, n - 1)

\* What one os.read(stdin_fd, 256) returns: one key, two keys, or as many
\* arrow keys as the ring has slots (64 sequences of 3 bytes in the program).
LoopReads ==
    LoopKeys \cup {a \o b : a \in LoopKeys, b \in LoopKeys}
        \cup {Repeated(Csi(<<"B">>), RING_BUFFER_CAPACITY)}

\* The text of an event kind, as the f-string of line 994 writes it.
KindText(kind) ==
    CASE kind = "none" -> <<"n", "o", "n", "e">>
      [] kind = "char" -> <<"c", "h", "a", "r">>
      [] kind = "enter" -> <<"e", "n", "t", "e", "r">>
      [] kind = "backspace" -> <<"b", "a", "c", "k", "s", "p", "a", "c", "e">>
      [] kind = "escape" -> <<"e", "s", "c", "a", "p", "e">>
      [] kind = "arrow_up" -> <<"a", "r", "r", "o", "w", "_", "u", "p">>
      [] kind = "arrow_down" -> <<"a", "r", "r", "o", "w", "_", "d", "o", "w", "n">>
      [] kind = "arrow_right" -> <<"a", "r", "r", "o", "w", "_", "r", "i", "g", "h", "t">>
      [] kind = "arrow_left" -> <<"a", "r", "r", "o", "w", "_", "l", "e", "f", "t">>
      [] kind = "home" -> <<"h", "o", "m", "e">>
      [] kind = "end" -> <<"e", "n", "d">>
      [] kind = "page_up" -> <<"p", "a", "g", "e", "_", "u", "p">>
      [] kind = "page_down" -> <<"p", "a", "g", "e", "_", "d", "o", "w", "n">>

\* repr(last_char) for the empty string and for one character
Repr(char) ==
    IF char = "" THEN <<"'", "'">>
    ELSE IF char = "'" THEN <<"\"", "'", "\"">>
    ELSE IF char = "\\" THEN <<"'", "\\", "\\", "'">>
    ELSE <<"'", char, "'">>

\* lines 992-995: the header diagnostic
HeaderLine(scroll_offset_now, last_kind, last_char, last_mods) ==
    <<"[", " ", "T", "U", "I", " ", "]", " ", "q", "=", "q", "u", "i", "t", " ", " ", "s", "c", "r", "o", "l", "l", "=">>
        \o StrInt(scroll_offset_now)
        \o <<" ", " ", "e", "v", "t", "=">> \o KindText(last_kind)
        \o <<" ", "c", "h", "=">> \o Repr(last_char)
        \o <<" ", "m", "o", "d", "=">> \o StrInt(last_mods)

RECURSIVE RenderOrderBackwards(_, _, _, _, _)
\* A mutant of the render pass: the regions are rendered from the last of
\* region_order to the first.
RenderOrderBackwards(rs, order, k, width, st) ==
    IF k > Len(order) \/ st.raised THEN st
    ELSE RenderOrderBackwards(rs, order, k + 1, width,
                              render_region(rs[order[Len(order) + 1 - k]],
                                            st.cells, width,
                                            <<COLOR_TAG_IDX + 15, COLOR_DEFAULT, 0>>))

RECURSIVE RenderOrder(_, _, _, _, _)
\* lines 1001-1003: render_region for each region of region_order from the
\* k-th on; an exception of one call ends the pass.
RenderOrder(rs, order, k, width, st) ==
    IF k > Len(order) \/ st.raised THEN st
    ELSE RenderOrder(rs, order, k + 1, width,
                     render_region(rs[order[k]], st.cells, width,
                                   <<COLOR_TAG_IDX + 15, COLOR_DEFAULT, 0>>))

\* main is in the loop, about to run the part `pc`.
InLoop(pc) ==
    /\ proc = "running"
    /\ stack # <<>>
    /\ Top.fn = "main"
    /\ Top.pc = pc

\* lines 917-921: select finds standard input readable, os.read returns
\* bytes and write_events_to_ring decodes them.
PollInput ==
    /\ InLoop("poll")
    /\ last.reads < MaxPolls
    /\ \E bytes \in LoopReads :
          LET st == write_events_to_ring(bytes, event_ring, ring_write_index)
          IN  /\ raw_bytes' = bytes
              /\ event_ring' = st.ring
              /\ ring_write_index' = st.write_index
              /\ unread' = unread \o st.pushed
              /\ last' = [op |-> "poll", reads |-> last.reads + 1,
                          pushed |-> st.pushed]
    /\ stack' = SetTop([Top EXCEPT !.pc = "drain"])
    /\ UNCHANGED <<ring_read_index, returned>>
    /\ UNCHANGED <<original_termios, tty_attrs, initial_attrs, cursor_visible,
                   alt_screen, syscalls, proc, signals_sent, calls, entered>>
    /\ UNCHANGED <<gridVars, appVars>>

\* lines 917-918: select times out after 0.05 s and nothing is read.
PollTimeout ==
    /\ InLoop("poll")
    /\ stack' = SetTop([Top EXCEPT !.pc = "drain"])
    /\ last' = [op |-> "timeout", reads |-> last.reads]
    /\ UNCHANGED <<original_termios, tty_attrs, initial_attrs, cursor_visible,
                   alt_screen, syscalls, proc, signals_sent, calls, entered>>
    /\ UNCHANGED <<gridVars, inputVars, appVars>>

\* lines 922-981: read_event_from_ring; None ends the drain, an event is
\* recorded as the last event and dispatched against the mode.
DrainStep ==
    /\ InLoop("drain")
    /\ LET got == read_event_from_ring(event_ring, ring_read_index,
                                       ring_write_index)
           app == [mode |-> mode, regions |-> regions,
                   region_order |-> region_order,
                   focused_region_id |-> focused_region_id,
                   input_buffer |-> input_buffer,
                   command_buffer |-> command_buffer]
           after == Dispatch(app, got.event)
       IN  /\ returned' = got.event
           /\ ring_read_index' = got.read_index
           /\ IF got.event = NoEvent
              THEN /\ stack' = SetTop([Top EXCEPT !.pc = "quit_check"])
                   /\ UNCHANGED <<appVars, unread>>
              ELSE /\ stack' = stack
                   /\ mode' = after.mode
                   /\ regions' = after.regions
                   /\ region_order' = after.region_order
                   /\ focused_region_id' = after.focused_region_id
                   /\ input_buffer' = after.input_buffer
                   /\ command_buffer' = after.command_buffer
                   /\ last_event_kind' = got.event.kind
                   /\ last_event_mods' = got.event.modifiers
                   /\ last_event_char' = got.event.char
                   /\ unread' = Tail(unread)
           /\ last' = [op |-> "drain", reads |-> last.reads,
                       event |-> got.event, before |-> app]
    /\ UNCHANGED <<event_ring, ring_write_index, raw_bytes>>
    /\ UNCHANGED <<original_termios, tty_attrs, initial_attrs, cursor_visible,
                   alt_screen, syscalls, proc, signals_sent, calls, entered>>
    /\ UNCHANGED gridVars

\* lines 982-983: break when the mode is QUITTING, to restore_terminal of
\* line 1011; otherwise on to the render pass.
QuitCheck ==
    /\ InLoop("quit_check")
    /\ stack' = SetTop([Top EXCEPT !.pc = IF mode = MODE_QUITTING
                                          THEN "r_read" ELSE "render"])
    /\ last' = [op |-> "quit_check", reads |-> last.reads]
    /\ UNCHANGED <<original_termios, tty_attrs, initial_attrs, cursor_visible,
                   alt_screen, syscalls, proc, signals_sent, calls, entered>>
    /\ UNCHANGED <<gridVars, inputVars, appVars>>

\* lines 985-1010: the header diagnostic is rewritten, the grid is cleared,
\* every region is rendered and the frame is flushed.  An IndexError out of
\* render_region ends main as any uncaught exception does.
RenderPass ==
    /\ InLoop("render")
    /\ LET scroll_offset_now ==
               IF focused_region_id # NO_REGION
               THEN regions[focused_region_id].scroll_offset ELSE 0
           with_header ==
               [regions EXCEPT ![0].lines[1] =
                   HeaderLine(scroll_offset_now, last_event_kind,
                              last_event_char, last_event_mods)]
           rendered ==
               RenderOrder(with_header, region_order, 1, grid_width,
                           [cells |-> [i \in 1..(grid_width * grid_height) |->
                                          BLANK_CELL],
                            raised |-> FALSE])
           st == DiffRows(rendered.cells, previous, grid_width, grid_height, 0,
                          FlushStart(style_cache))
       IN  /\ regions' = with_header
           /\ current' = rendered.cells
           /\ IF rendered.raised
              THEN /\ stack' = <<Frame("atexit", "r_read")>>
                   /\ proc' = "finalizing"
                   /\ UNCHANGED <<output, style_cache, previous>>
              ELSE /\ stack' = SetTop([Top EXCEPT !.pc = "poll"])
                   /\ proc' = proc
                   /\ output' = EndOfFrame(st.out)
                   /\ style_cache' = st.cache
                   /\ previous' = Swap(rendered.cells, previous)
           /\ last' = [op |-> "render", reads |-> last.reads,
                       raised |-> rendered.raised]
    /\ UNCHANGED <<grid_width, grid_height>>
    /\ UNCHANGED <<region_order, focused_region_id, mode, input_buffer,
                   command_buffer, last_event_kind, last_event_mods,
                   last_event_char>>
    /\ UNCHANGED <<original_termios, tty_attrs, initial_attrs, cursor_visible,
                   alt_screen, syscalls, signals_sent, calls, entered>>
    /\ UNCHANGED inputVars

\* The state main is in when it reaches `while True` (line 915): raw mode
\* entered, blank buffers, the three regions, an empty ring.  On a terminal
\* of 4 rows the log region (top 0, height 4) lies over the header.
InitLoop ==
    /\ original_termios = "cooked"
    /\ tty_attrs = "raw"
    /\ initial_attrs = "cooked"
    /\ cursor_visible = FALSE
    /\ alt_screen = TRUE
    /\ syscalls = <<>>
    /\ stack = <<Frame("main", "poll")>>
    /\ proc = "running"
    /\ signals_sent = 0
    /\ calls = 0
    /\ entered = TRUE
    /\ grid_width = LoopColumns
    /\ grid_height \in {4, LoopRows}
    /\ current = [i \in 1..(grid_width * grid_height) |-> BLANK_CELL]
    /\ previous = [i \in 1..(grid_width * grid_height) |-> BLANK_CELL]
    /\ output = <<>>
    /\ style_cache = build_style_cache
    /\ IdleInput
    /\ regions = MainRegions(grid_width, grid_height)
    /\ region_order = <<0, 1, 2>>
    /\ focused_region_id = 1
    /\ mode = MODE_NORMAL
    /\ input_buffer = <<>>
    /\ command_buffer = <<>>
    /\ last_event_kind = "none"
    /\ last_event_mods = 0
    /\ last_event_char = ""
    /\ last = [op |-> "init", reads |-> 0]

NextLoop ==
    \/ PollInput
    \/ PollTimeout
    \/ DrainStep
    \/ QuitCheck
    \/ RenderPass

SpecLoop == InitLoop /\ [][NextLoop]_vars

(***************************************************************************)
(* Claims about the main loop.                                             *)
(***************************************************************************)
\* C29: each time the loop polls the input descriptor the ring is empty
\* (read_index equals write_index) and every event pushed by the reads made
\* so far has been returned by read_event_from_ring and dispatched.
C29_DrainedBeforePoll ==
    InLoop("poll") =>
        /\ ring_read_index = ring_write_index
        /\ unread = <<>>

\* The fields of the regions that input may change through scroll_region
\* and cycle_focus.
FocusAndScroll ==
    [id \in DOMAIN regions |->
        <<regions[id].is_focused, regions[id].scroll_offset>>]

C34_ExactlyOneFocused ==
    /\ focused_region_id \in DOMAIN regions
    /\ {id \in DOMAIN regions : regions[id].is_focused} = {focused_region_id}

\* C34 witness: four Tabs in two reads took the focus from the content
\* region round the three regions and on to the log; the frame has been
\* rendered and the loop polls again.
C34_Witness ==
    /\ InLoop("poll")
    /\ last.op = "render"
    /\ Len(regions[2].lines) = 5
    /\ focused_region_id = 2
    /\ regions[2].is_focused
    /\ ~regions[1].is_focused
    /\ ~regions[0].is_focused

\* The region covers the grid cell (row, col).
Covers(region, row, col) ==
    /\ region.top <= row
    /\ row < region.top + region.height
    /\ region.left <= col
    /\ col < region.left + region.width

\* What a region shows at the grid cell (row, col): the character of its
\* line scroll_offset + (row - top) at column col - left, a space where the
\* line has none, in the default style of line 847.
ShownAt(region, row, col) ==
    LET line_index == region.scroll_offset + (row - region.top)
        column == col - region.left
        line == IF 0 <= line_index /\ line_index < Len(region.lines)
                THEN region.lines[line_index + 1] ELSE <<>>
    IN  <<IF column < Len(line) THEN line[column + 1] ELSE " ",
          16777216 + 15, 0, 0>>

\* C37: after the render pass of one loop iteration (clear, render every
\* region in region_order, diff-flush), every grid cell covered by no region
\* is the blank cell, every covered cell shows the content of the last
\* region in region_order that covers it, and previous equals current.
C37_RenderPassLayers ==
    (last.op = "render" /\ ~last.raised) =>
        /\ previous = current
        /\ Len(current) = grid_width * grid_height
        /\ \A row \in 0..(grid_height - 1), col \in 0..(grid_width - 1) :
              LET covering == {k \in 1..Len(region_order) :
                                  Covers(regions[region_order[k]], row, col)}
                  top_k == CHOOSE k \in covering : \A j \in covering : j <= k
                  cell == current[row * grid_width + col + 1]
              IN  IF covering = {} THEN cell = <<" ", 0, 0, 0>>
                  ELSE cell = ShownAt(regions[region_order[top_k]], row, col)

\* C37 witness: on the terminal of 4 rows, after a Tab, the frame shows
\* the log's first line where the header lies under it and the Tab's entry
\* on the row below, and previous has taken the frame.
C37_Witness ==
    /\ last.op = "render"
    /\ ~last.raised
    /\ grid_height = 4
    /\ Covers(regions[0], 0, 0)
    /\ Covers(regions[2], 0, 0)
    /\ Len(regions[2].lines) = 2
    /\ regions[0].lines[1][1] = "["
    /\ current[1] = <<"t", 16777216 + 15, 0, 0>>
    /\ current[grid_width + 2] = <<regions[2].lines[2][2], 16777216 + 15, 0, 0>>
    /\ previous = current

(***************************************************************************)
(* SpecHome: the events of NORMAL mode dispatched on the application state *)
(* after any number of Tabs: the focus is on any of the three regions and  *)
(* the tab log, which grows by one line per Tab (line 970) and is the      *)
(* lines of region 2 (lines 879, 912), is short or long.                   *)
(***************************************************************************)

MaxLog == 3          \* Tab entries of a short log

\* The log after `tabs` Tabs: line 879 and one append per Tab.
LogLines(tabs) == [i \in 1..(tabs + 1) |-> <<"t">>]

\* Tabs pressed so far: a few, or as many as make the log longer than
\* height + 50000 lines.
TabCounts == (0..MaxLog) \cup {50000 + 5}

\* cycle_focus applied `tabs` times to the focus main starts with.
FocusAfter(tabs) == (1 + tabs) % 3

\* Offsets a region reaches by scrolling: both ends and the lines next to
\* them.
OffsetsOf(region) ==
    LET max_offset == Max(0, Len(region.lines) - region.height)
    IN  {0, max_offset, Max(0, max_offset - 1)} \cup {o \in {1} : o <= max_offset}

InitHome ==
    /\ \E tabs \in TabCounts, rows \in {6, 7} :
         LET built == MainRegions(80, rows)
             logged == [built EXCEPT ![2].lines = LogLines(tabs)]
             focus == FocusAfter(tabs)
         IN  /\ focused_region_id = focus
             /\ \E offset \in OffsetsOf(logged[focus]) :
                   regions = [id \in DOMAIN logged |->
                                [logged[id] EXCEPT
                                   !.is_focused = (id = focus),
                                   !.scroll_offset =
                                       IF id = focus THEN offset ELSE 0]]
    /\ region_order = <<0, 1, 2>>
    /\ mode = MODE_NORMAL
    /\ input_buffer = <<>>
    /\ command_buffer = <<>>
    /\ last_event_kind = "none"
    /\ last_event_mods = 0
    /\ last_event_char = ""
    /\ IdleTerm /\ IdleGrid /\ IdleInput
    /\ last = [op |-> "init"]

\* One event dispatched on the state built, or after a Home or an End.
DispatchAtExtreme ==
    /\ \/ last.op = "init"
       \/ last.op = "dispatch" /\ last.event.kind \in {"home", "end"}
    /\ DispatchEvent

NextHome == DispatchAtExtreme

SpecHome == InitHome /\ [][NextHome]_vars

\* C31: in NORMAL mode with a focused region, a Home event (no modifiers)
\* sets that region's scroll_offset to 0 and an End event sets it to
\* max(0, len(lines) - height), from any current offset and for any number
\* of content lines.
C31_HomeEndReachExtremes ==
    (/\ last.op = "dispatch"
     /\ last.before.mode = "NORMAL"
     /\ last.before.focused_region_id # -1
     /\ last.event.kind \in {"home", "end"}
     /\ last.event.modifiers = 0)
        => LET region == regions[last.before.focused_region_id]
           IN  region.scroll_offset =
                   IF last.event.kind = "home" THEN 0
                   ELSE Max(0, Len(region.lines) - region.height)

(***************************************************************************)
(* SpecStep: write_events_to_ring (tui.py 531-595) one iteration of its    *)
(* while loop at a time.  byte_index and write_index are locals of the     *)
(* call, kept in `last`; the ring is written in place and                  *)
(* app_state['ring_write_index'] is stored when the loop has ended.        *)
(***************************************************************************)

\* Buffers of one read: every string over the bytes that steer the decoder,
\* the sequences of the tables, and more keys than the ring has slots.
StepInputs ==
    Streams \cup IncompleteSequences \cup UnrecognisedSequences
        \cup {CsiModified(5, Ord("A")),
              Repeated(<<Ord("x")>>, RING_BUFFER_CAPACITY + 1)}

\* lines 541-593: one iteration of `while byte_index < len(raw_bytes)`
DecodeIteration ==
    /\ last.op \in {"decode_call", "decode_step"}
    /\ last.byte_index < Len(raw_bytes)
    /\ LET byte_index == last.byte_index
           byte_value == raw_bytes[byte_index + 1]
           result == IF byte_value = ESC
                     THEN parse_escape_sequence(raw_bytes, byte_index)
                     ELSE [event |-> ClassifyByte(byte_value),
                           index |-> byte_index + 1]
           st == [ring |-> event_ring, write_index |-> last.write_index,
                  pushed |-> <<>>]
           after == IF result.event # NoEvent THEN Push(st, result.event)
                    ELSE st
       IN  /\ event_ring' = after.ring
           /\ unread' = unread \o after.pushed
           /\ last' = [op |-> "decode_step", byte_index |-> result.index,
                       write_index |-> after.write_index]
    /\ UNCHANGED <<ring_write_index, ring_read_index, raw_bytes, returned>>
    /\ UNCHANGED <<termVars, gridVars, appVars>>

\* lines 541 and 595: the loop test fails and the write index is stored.
DecodeReturn ==
    /\ last.op \in {"decode_call", "decode_step"}
    /\ last.byte_index >= Len(raw_bytes)
    /\ ring_write_index' = last.write_index
    /\ last' = [op |-> "decode_done", byte_index |-> last.byte_index,
                write_index |-> last.write_index]
    /\ UNCHANGED <<event_ring, ring_read_index, raw_bytes, unread, returned>>
    /\ UNCHANGED <<termVars, gridVars, appVars>>

\* lines 537-539: the call on an empty ring
InitStep ==
    /\ event_ring = EmptyRing
    /\ ring_write_index = 0
    /\ ring_read_index = 0
    /\ raw_bytes \in StepInputs
    /\ unread = <<>>
    /\ returned = NoEvent
    /\ IdleTerm /\ IdleGrid /\ IdleApp
    /\ last = [op |-> "decode_call", byte_index |-> 0, write_index |-> 0]

NextStep ==
    \/ DecodeIteration
    \/ DecodeReturn

SpecStep == InitStep /\ [][NextStep]_vars

\* The call goes on running: the loop takes its next iteration or returns.
SpecStepFair == SpecStep /\ WF_vars(NextStep)

\* C39: decoding always makes progress and terminates: parse_escape_sequence
\* returns a next index strictly greater than start_index and at most
\* len(raw_bytes), so write_events_to_ring terminates for every byte string,
\* never reads past the end of the buffer (every byte an iteration reads
\* lies before the index it returns), and leaves ring_write_index in
\* [0, capacity).
C39_DecodingTerminates ==
    /\ [](\A start_index \in 0..(Len(raw_bytes) - 1) :
             raw_bytes[start_index + 1] = ESC =>
                 LET result == parse_escape_sequence(raw_bytes, start_index)
                 IN  /\ result.index > start_index
                     /\ result.index <= Len(raw_bytes))
    /\ [](last.byte_index <= Len(raw_bytes))
    /\ [][last'.op = "decode_step" => last'.byte_index > last.byte_index]_vars
    /\ <>(last.op = "decode_done")
    /\ [](last.op = "decode_done" =>
             (/\ last.byte_index = Len(raw_bytes)
              /\ ring_write_index \in 0..(RING_BUFFER_CAPACITY - 1)))
    /\ [](ring_write_index \in 0..(RING_BUFFER_CAPACITY - 1))

\* C39 witness: the call on ESC [ 1 ; has returned with the index at the end
\* of the buffer, no event pushed and the write index still 0.
C39_Witness ==
    /\ last.op = "decode_done"
    /\ raw_bytes = <<ESC>> \o Encode(<<"[", "1", ";">>)
    /\ last.byte_index = 4
    /\ ring_write_index = 0
    /\ unread = <<>>

====
